---- MODULE Spec2Model ----
(***************************************************************************)
(* Coordination layer of the Hedera agent economy (src/backend):           *)
(* the topic bus (HederaClient), the economy state store (EconomyState),   *)
(* and the Broker, Worker and Settlement agents.                           *)
(*                                                                         *)
(* The program runs on one asyncio event loop: code between two awaits     *)
(* that really suspend is atomic.  Each action below is one such stretch   *)
(* of code, from the resumption of a coroutine to its next suspension      *)
(* (or to its return / raise).  The suspension points are                  *)
(*   - asyncio.sleep(0.05) in submit_message (mock mode),                  *)
(*   - run_in_executor in submit_message / _create_topic (live mode),      *)
(*   - asyncio.sleep(0.1) in transfer_hbar,                                *)
(*   - run_in_executor around the fulfillment backend in execute_task.     *)
(* Live mode without an importable SDK has no suspension in               *)
(* submit_message; its behaviours are those of live mode in which every    *)
(* SDK call fails, with adjacent steps merged.                             *)
(*                                                                         *)
(* Money is counted in units of 0.00001 HBAR (a tenth of the 4th decimal), *)
(* so that both round(budget * 0.8, 4) and the unrounded budget * 0.8 of   *)
(* a budget given in units of 0.0001 are integers.                         *)
(***************************************************************************)
EXTENDS Integers, Sequences, FiniteSets, TLC

\* ---------------------------------------------------------------- bounds
\* Number of submit_task calls made on the Broker (they may overlap).
MaxCalls == 2
\* Number of settle_task calls made on the Settlement agent.
MaxSettles == 2
\* Largest absolute budget of a single submit_task call, in units of 0.0001.
MaxBudget == 4
\* Largest lifetime tasks_completed of a worker in the rosters on which
\* worker selection is explored.
MaxTasks == 2
\* Number of entries appended around the retention cap of a history.
MaxAppends == 6
\* Number of ensure_topics calls made on one bus when they are compared.
MaxEnsures == 2
MaxHeartbeats == 2
MaxUuids == 2
MaxSnapshots == 1

Calls == 1..MaxCalls
Settles == 1..MaxSettles

\* ------------------------------------------------------- program constants
\* hedera_client.py:84
TopicNames == {"registry", "tasks", "results", "payments"}
\* ensure_topics walks the names in this order
TopicOrder == <<"registry", "tasks", "results", "payments">>
\* models.py:78 / models.py:83: retention caps of the two histories
MessageCap == 500
TransactionCap == 200
\* models.py:35: AgentMessage.sequence_number default
DefaultSequenceNumber == 0

\* Strings that are matched by substring are sequences of letters.
\* Letters: 1 2 = "summarize", 3 = "analyze", 4 = "settle", 0 = any other
\* letter.
Broker == "broker"
Settlement == "settlement"
Registry == "registry"
AllWorkers == {"w1", "w2"}
Agents == {Broker, Settlement, Registry} \cup AllWorkers

\* main.py:65-69: the skills the workers are constructed with;
\* settlement.py:20: the Settlement agent's skills (the other agents'
\* skills occur in no task type used here).
Skills(a) ==
    CASE a = "w1" -> {<<1, 2>>}
      [] a = "w2" -> {<<3>>}
      [] a = Settlement -> {<<4>>}
      [] OTHER -> {}

\* base.py:12-35: agent_type given to the constructor
AgentType(a) ==
    CASE a = Broker -> "broker"
      [] a = Settlement -> "settlement"
      [] a = Registry -> "registry"
      [] OTHER -> "worker"

\* Inputs of submit_task: task types and budgets (units of 0.0001 HBAR).
\* <<1, 2>> contains w1's skill, <<0, 3>> contains w2's skill.
TaskTypes == {<<1, 2>>, <<0, 3>>}
\* Task types on which worker selection is explored: matching w1 only, w2
\* only (and the Settlement agent), both workers, no worker (but the
\* Settlement agent), nobody.
SelectTypes == {<<1, 2>>, <<4, 3>>, <<1, 2, 3>>, <<4>>, <<0>>}
\* The budget of overlapping calls: it only flows into cost and earnings.
Budgets == {3}
\* TaskRequest (models.py:40-46) puts no constraint on budget_hbar: a
\* single call is explored with every budget of the range, negative too.
AllBudgets == (0 - MaxBudget)..MaxBudget
\* Inputs of settle_task: amounts (units of 0.00001 HBAR), unconstrained.
Amounts == {0 - 20, 40}
\* Worker ids passed to settle_task.
SettleWorkers == {"w1"}
\* Rosters the store can be constructed with (workers registered).
WorkerSets == {{}, {"w1"}, {"w1", "w2"}}

VARIABLES
    mock_mode,          \* HederaClient._mock_mode
    live_workers,       \* main module exposes worker_agents (live objects)
    workers,            \* worker agents constructed against the store
    topics,             \* HederaClient._topics: name -> topic id, 0 = absent
    env_names,          \* names with a HEDERA_TOPIC_<NAME> id in the environment
    ens,                \* ensure_topics: calls still to come, position of
                        \* the call in progress in topic_names (0 = none)
    net_created,        \* topics created on the network so far
    ensured,            \* history: the mapping left by each finished call
    message_seq,        \* HederaClient._message_seq: name -> last local seq
    emitted,            \* history: per topic, the seqs emitted, in order
    messages,           \* EconomyState.messages
    transactions,       \* EconomyState.transactions
    tasks_completed,    \* EconomyState.tasks_completed
    total_hbar_settled, \* EconomyState.total_hbar_settled
    agent_status,       \* AgentCapability.status, per agent
    agent_tasks,        \* AgentCapability.tasks_completed, per agent
    agent_earnings,     \* AgentCapability.earnings_hbar, per agent
    pc,                 \* per submit_task call: where its coroutine stands
    req,                \* per submit_task call: the TaskRequest
    sel,                \* per submit_task call: the worker selected
    res,                \* per submit_task call: the outcome
    spc,                \* per settle_task call: where its coroutine stands
    sreq,               \* per settle_task call: its arguments
    stx,                \* per settle_task call: tx id of the transfer
    hist,               \* history, per submit_task call: what it met
    running,            \* BaseAgent.running, per agent with a run loop
    registry_pc,        \* RegistryAgent.run: where its coroutine stands
    settlement_loop,    \* SettlementAgent.run: where it stands, and the
                        \* settle_task call it is processing
    settlement_queue,   \* SettlementAgent._settlement_queue
    queued,             \* history: settlements enqueued so far
    broker_loop,        \* BrokerAgent.run: where it stands, and the
                        \* submit_task call it is processing
    task_queue,         \* BrokerAgent._task_queue
    agent_id,           \* BaseAgent.agent_id, per constructed agent
    agents,             \* EconomyState.agents: agent id -> record
    snapshots,          \* history: what the snapshot() calls returned
    appended            \* history: the records handed to add_transaction
                        \* so far (their number, the sum of their amounts)
                        \* and the additions made to total_hbar_settled

busVars == <<mock_mode, topics, message_seq, emitted>>
topicVars == <<env_names, ens, net_created, ensured>>
storeVars == <<messages, transactions, tasks_completed, total_hbar_settled>>
agentVars == <<agent_status, agent_tasks, agent_earnings>>
callVars == <<pc, req, sel, res, hist>>
settleVars == <<spc, sreq, stx>>
loopVars == <<running, registry_pc, settlement_loop, settlement_queue,
              queued, broker_loop, task_queue>>
rosterVars == <<agent_id, agents>>
viewVars == <<snapshots, appended>>
lifeVars == <<loopVars, rosterVars, viewVars>>
vars == <<mock_mode, live_workers, workers, topics, message_seq, emitted,
          messages, transactions, tasks_completed, total_hbar_settled,
          agent_status, agent_tasks, agent_earnings, pc, req, sel, res,
          spc, sreq, stx, hist, env_names, ens, net_created, ensured,
          running, registry_pc, settlement_loop, settlement_queue, queued,
          broker_loop, task_queue, agent_id, agents, snapshots,
          appended>>

NoReq == [task_type |-> <<>>, budget |-> 0]
NoRes == [status |-> "none", cost |-> 0, worker |-> "none"]
NoSettle == [task |-> 0, worker |-> "none", amount |-> 0]
NoTx == [kind |-> "null", seq |-> 0]
\* no_idle_at_call: no idle worker in the store when submit_task was called;
\* backend: what the fulfillment backend did ("none", "ok", "raised").
NoHist == [no_idle_at_call |-> FALSE, backend |-> "none"]

\* ------------------------------------------------------------ topic bus

\* Mutation of MockTopicId: the fallback yields no id.
MockTopicIdNone(name) == 0

\* hedera_client.py:103 / :115: the mock topic id, hash(memo) % 9000000 +
\* 1000000, a fixed positive number per name within one process.
MockTopicId(name) ==
    CASE name = "registry" -> 1000001
      [] name = "tasks" -> 1000002
      [] name = "results" -> 1000003
      [] OTHER -> 1000004

\* Mutation of TopicReady: no check of the topic id.
TopicReadyAlways(t) == TRUE

\* hedera_client.py:129-131: submit_message raises ValueError when the
\* topic name has no id.
TopicReady(t) == topics[t] # 0

\* A single counter shared by all topics (mutation of NextSeq).
NextSeqShared(t) ==
    message_seq["registry"] + message_seq["tasks"]
        + message_seq["results"] + message_seq["payments"] + 1

\* hedera_client.py:138 / :154: seq = self._message_seq.get(topic_name, 0) + 1
NextSeq(t) == message_seq[t] + 1

\* Mutation of add_message: the new entry is put in front.
add_message_in_front(history, msg) == <<msg>> \o history

\* Mutation of add_message: the write of another writer is overwritten.
add_message_overwriting(history, msg) ==
    IF history = <<>> THEN <<msg>>
    ELSE [history EXCEPT ![Len(history)] = msg]

\* models.py:76-79 EconomyState.add_message
add_message(history, msg) ==
    LET app == Append(history, msg)
    IN  IF Len(app) > MessageCap
        THEN SubSeq(app, Len(app) - MessageCap + 1, Len(app))
        ELSE app

\* Mutation of add_transaction: the record is not appended.
add_transaction_dropped(history, txn) == history

\* Mutation of add_transaction: nothing is evicted.
add_transaction_uncapped(history, txn) == Append(history, txn)

\* models.py:81-84 EconomyState.add_transaction
add_transaction(history, txn) ==
    LET app == Append(history, txn)
    IN  IF Len(app) > TransactionCap
        THEN SubSeq(app, Len(app) - TransactionCap + 1, Len(app))
        ELSE app

\* Outcomes of the awaited SDK submission: none in mock mode.
SdkOutcomes == IF mock_mode THEN {TRUE} ELSE BOOLEAN

\* Mutation of Payload: the tx id is left out.
PayloadWithoutTx(task, worker, st, amount, tx) ==
    [task_id |-> task, worker_id |-> worker, status |-> st,
     amount |-> amount, tx_id |-> [kind |-> "null", seq |-> 0]]

Payload(task, worker, st, amount, tx) ==
    [task_id |-> task, worker_id |-> worker, status |-> st,
     amount |-> amount, tx_id |-> tx]

\* Mutation of Publish: the message is recorded as it was built, before
\* the submission gave it a tx id.
PublishUnsubmitted(t, sender, mtype, payload, sdkOk) ==
    LET local == mock_mode \/ ~sdkOk
        seq == NextSeq(t)
        msg == [topic |-> t, sender |-> sender, message_type |-> mtype,
                payload |-> payload,
                sequence_number |-> DefaultSequenceNumber, tx_id |-> NoTx]
    IN  /\ message_seq' = IF local THEN [message_seq EXCEPT ![t] = seq]
                                   ELSE message_seq
        /\ emitted' = IF local THEN [emitted EXCEPT ![t] = Append(@, seq)]
                               ELSE emitted
        /\ messages' = add_message(messages, msg)

\* The second half of BaseAgent.publish (base.py:41-52), from the
\* resumption of submit_message (hedera_client.py:135-156) to the return
\* of publish: in mock mode, or when the SDK call failed, the local
\* counter of the topic advances and the tx id is built from it; the
\* message, whose sequence_number is still the default, gets the tx id and
\* is appended to the store.
Publish(t, sender, mtype, payload, sdkOk) ==
    LET local == mock_mode \/ ~sdkOk
        seq == NextSeq(t)
        tx == IF local THEN [kind |-> "local", seq |-> seq]
                       ELSE [kind |-> "sdk", seq |-> 0]
        msg == [topic |-> t, sender |-> sender, message_type |-> mtype,
                payload |-> payload,
                sequence_number |-> DefaultSequenceNumber, tx_id |-> tx]
    IN  /\ message_seq' = IF local THEN [message_seq EXCEPT ![t] = seq]
                                   ELSE message_seq
        /\ emitted' = IF local THEN [emitted EXCEPT ![t] = Append(@, seq)]
                               ELSE emitted
        /\ messages' = add_message(messages, msg)

NoPublish == UNCHANGED <<message_seq, emitted, messages>>

\* hedera_client.py:87-91: the id found in the environment for a name
EnvTopicId(name) ==
    CASE name = "registry" -> 3000001
      [] name = "tasks" -> 3000002
      [] name = "results" -> 3000003
      [] OTHER -> 3000004

\* hedera_client.py:117-125 _sdk_create_topic: the id of the n-th topic
\* created on the network, a new one for each creation.
NetTopicId(n) == 2000000 + n

\* The first position from i on whose name has no id in the environment
\* (Len(TopicOrder) + 1 when there is none): there _create_topic is called.
NextCreate(i) ==
    IF \E j \in i..Len(TopicOrder) : TopicOrder[j] \notin env_names
    THEN CHOOSE j \in i..Len(TopicOrder) :
            /\ TopicOrder[j] \notin env_names
            /\ \A k \in i..(j - 1) : TopicOrder[k] \in env_names
    ELSE Len(TopicOrder) + 1

\* hedera_client.py:87-91: the names at positions i .. j - 1 take the id
\* of the environment.
WithEnvIds(tp, i, j) ==
    [t \in TopicNames |->
        IF \E k \in i..(j - 1) : TopicOrder[k] = t THEN EnvTopicId(t)
                                                    ELSE tp[t]]

\* What a call leaves when it has walked all names.
EnsureEnd(tp, j) ==
    /\ ens' = [calls_left |-> IF ens.pos = 0 THEN ens.calls_left - 1
                                             ELSE ens.calls_left,
               pos |-> IF j > Len(TopicOrder) THEN 0 ELSE j]
    /\ ensured' = IF j > Len(TopicOrder) THEN Append(ensured, tp)
                                         ELSE ensured

\* hedera_client.py:82-97 ensure_topics, from the call to its first
\* suspension.  The existing mapping is not looked at: every name is set
\* again, from the environment or from _create_topic.  In mock mode
\* _create_topic does not suspend (hedera_client.py:101-104) and the whole
\* call is one step; in live mode the call runs up to the first name
\* without an environment id, whose creation is awaited.
ensure_topics ==
    /\ ens.calls_left > 0
    /\ ens.pos = 0
    /\ LET j == IF mock_mode THEN Len(TopicOrder) + 1 ELSE NextCreate(1)
           tp == IF mock_mode
                 THEN [t \in TopicNames |->
                        IF t \in env_names THEN EnvTopicId(t)
                                           ELSE MockTopicId(t)]
                 ELSE WithEnvIds(topics, 1, j)
       IN  /\ topics' = tp
           /\ EnsureEnd(tp, j)
    /\ UNCHANGED <<mock_mode, live_workers, workers, message_seq, emitted,
                   lifeVars,
                   env_names, net_created,
                   storeVars, agentVars, callVars, settleVars>>

\* hedera_client.py:92-97 and :106-115: the awaited creation returned an id
\* of the network (sdkOk) or failed, and the mock id is used; the call goes
\* on to the next name without an environment id, or ends.
TopicCreated(sdkOk) ==
    /\ ens.pos # 0
    /\ LET name == TopicOrder[ens.pos]
           id == IF sdkOk THEN NetTopicId(net_created + 1)
                          ELSE MockTopicId(name)
           j == NextCreate(ens.pos + 1)
           tp == WithEnvIds([topics EXCEPT ![name] = id], ens.pos + 1, j)
       IN  /\ topics' = tp
           /\ EnsureEnd(tp, j)
    /\ net_created' = IF sdkOk THEN net_created + 1 ELSE net_created
    /\ UNCHANGED <<mock_mode, live_workers, workers, message_seq, emitted,
                   lifeVars,
                   env_names, storeVars, agentVars, callVars, settleVars>>

\* ------------------------------------------------------------- workers

\* Python's `skill in task_type` on strings: contiguous substring.
IsSubstring(s, t) ==
    \E i \in 0..(Len(t) - Len(s)) : SubSeq(t, i + 1, i + Len(s)) = s

\* Insertion order of EconomyState.agents (construction order, main.py:61-69)
RosterOrder == <<Registry, Broker, Settlement, "w1", "w2">>

\* base.py:35: every agent registers its record in the store
Registered == {Registry, Broker, Settlement} \cup workers

IdleWorkers ==
    {w \in Registered : AgentType(w) = "worker" /\ agent_status[w] = "idle"}

\* Mutation of Candidates: the skills are not looked at.
CandidatesAnySkill(task_type) == IdleWorkers

\* broker.py:96-107: the skill-matching idle workers, else all idle workers
Candidates(task_type) ==
    LET matching == {w \in IdleWorkers :
                        \E skill \in Skills(w) : IsSubstring(skill, task_type)}
    IN  IF matching # {} THEN matching ELSE IdleWorkers

\* Mutation of find_worker: the first candidate in roster order.
find_worker_first(task_type) ==
    LET cands == Candidates(task_type)
        first == CHOOSE i \in 1..Len(RosterOrder) :
                    /\ RosterOrder[i] \in cands
                    /\ \A j \in 1..(i - 1) : RosterOrder[j] \notin cands
    IN  IF cands = {} THEN "none" ELSE RosterOrder[first]

\* Mutation of find_worker: the fallback takes any worker, idle or not.
find_worker_any_status(task_type) ==
    LET cands == IF Candidates(task_type) # {} THEN Candidates(task_type)
                                               ELSE workers
        least == {w \in cands : \A v \in cands : agent_tasks[w] <= agent_tasks[v]}
        first == CHOOSE i \in 1..Len(RosterOrder) :
                    /\ RosterOrder[i] \in least
                    /\ \A j \in 1..(i - 1) : RosterOrder[j] \notin least
    IN  IF cands = {} THEN "none" ELSE RosterOrder[first]

\* broker.py:93-126 _find_worker: min() returns the first candidate, in
\* roster order, with the fewest tasks_completed; "none" stands for None.
find_worker(task_type) ==
    LET cands == Candidates(task_type)
        least == {w \in cands : \A v \in cands : agent_tasks[w] <= agent_tasks[v]}
        first == CHOOSE i \in 1..Len(RosterOrder) :
                    /\ RosterOrder[i] \in least
                    /\ \A j \in 1..(i - 1) : RosterOrder[j] \notin least
    IN  IF cands = {} THEN "none" ELSE RosterOrder[first]

\* worker.py:97: round(req.budget_hbar * 0.8, 4); budget in units of 0.0001,
\* result in units of 0.00001 (8 * budget is never half-way between two
\* multiples of 10, so the rounding mode does not matter).
WorkerCost(budget) == 10 * ((8 * budget + 5) \div 10)

\* broker.py:77: cost_hbar = req.budget_hbar * 0.8, not rounded
RecordCost(budget) == 8 * budget

\* Mutation of StatsDelta: an increment is lost.
StatsDeltaLost(ok) == 0

\* Mutation of StatsDelta: the counters are bumped whatever the outcome.
StatsDeltaAlways(ok) == 1

\* worker.py:110-112 sit inside the try, after the backend call: the three
\* counters advance by one task only when the backend returned.
StatsDelta(ok) == IF ok THEN 1 ELSE 0

\* worker.py:96-107 / :116-126: the TaskResult of execute_task
TaskResultOf(w, budget, ok) ==
    IF ok THEN [status |-> "completed", cost |-> WorkerCost(budget), worker |-> w]
          ELSE [status |-> "failed", cost |-> 0, worker |-> w]

\* -------------------------------------------------------------- broker

\* broker.py:35-46: submit_task up to the suspension inside the publish of
\* TASK_REQUEST: status busy, then submit_message's topic check, which
\* raises out of submit_task (no handler, no finally) when "tasks" has no id.
submit_task(c, task_type, budget) ==
    /\ pc[c] = "ready"
    /\ req' = [req EXCEPT ![c] = [task_type |-> task_type, budget |-> budget]]
    /\ agent_status' = [agent_status EXCEPT ![Broker] = "busy"]
    /\ pc' = [pc EXCEPT ![c] = IF TopicReady("tasks") THEN "request_wait"
                                                      ELSE "raised"]
    /\ NoPublish
    /\ UNCHANGED <<mock_mode, live_workers, workers, topics, topicVars,
                   transactions, tasks_completed, total_hbar_settled,
                   agent_tasks, agent_earnings, sel, res, settleVars>>
    /\ hist' = [hist EXCEPT ![c].no_idle_at_call = (IdleWorkers = {})]

\* submit_task called directly (main.py:147-153), not from the run loop.
SubmitTask(c, task_type, budget) ==
    /\ submit_task(c, task_type, budget)
    /\ UNCHANGED lifeVars

\* broker.py:40-64: TASK_REQUEST is recorded, the worker is selected; with
\* none, status idle and the failure dict is returned; otherwise the publish
\* of TASK_ASSIGN starts (its topic, "tasks", has an id).
RequestPublished(c, sdkOk) ==
    /\ pc[c] = "request_wait"
    /\ Publish("tasks", Broker, "TASK_REQUEST",
               Payload(c, "none", "none", 10 * req[c].budget, NoTx), sdkOk)
    /\ LET worker == find_worker(req[c].task_type)
       IN  IF worker = "none"
           THEN /\ agent_status' = [agent_status EXCEPT ![Broker] = "idle"]
                /\ res' = [res EXCEPT ![c] = [status |-> "no_worker",
                                              cost |-> 0, worker |-> "none"]]
                /\ pc' = [pc EXCEPT ![c] = "done"]
                /\ sel' = sel
           ELSE /\ sel' = [sel EXCEPT ![c] = worker]
                /\ pc' = [pc EXCEPT ![c] = "assign_wait"]
                /\ UNCHANGED <<agent_status, res>>
    /\ UNCHANGED <<mock_mode, live_workers, workers, topics, topicVars, lifeVars,
                   transactions,
                   tasks_completed, total_hbar_settled, agent_tasks,
                   agent_earnings, req, hist, settleVars>>

\* broker.py:59-88 and worker.py:69-91: TASK_ASSIGN is recorded.  With a
\* live WorkerAgent, execute_task starts: worker status busy, suspension on
\* the fulfillment backend.  With a plain roster record, the TaskResult is
\* synthesized (status completed by default) and the publish of TASK_RESULT
\* starts, raising when "results" has no id.
AssignPublished(c, sdkOk) ==
    /\ pc[c] = "assign_wait"
    /\ Publish("tasks", Broker, "TASK_ASSIGN",
               Payload(c, sel[c], "none", 10 * req[c].budget, NoTx), sdkOk)
    /\ IF live_workers
       THEN /\ agent_status' = [agent_status EXCEPT ![sel[c]] = "busy"]
            /\ pc' = [pc EXCEPT ![c] = "execute_wait"]
            /\ res' = res
       ELSE /\ res' = [res EXCEPT ![c] = [status |-> "completed",
                                          cost |-> RecordCost(req[c].budget),
                                          worker |-> sel[c]]]
            /\ pc' = [pc EXCEPT ![c] = IF TopicReady("results")
                                       THEN "result_wait" ELSE "raised"]
            /\ agent_status' = agent_status
    /\ UNCHANGED <<mock_mode, live_workers, workers, topics, topicVars, lifeVars,
                   transactions,
                   tasks_completed, total_hbar_settled, agent_tasks,
                   agent_earnings, req, sel, hist, settleVars>>

\* Mutation of ExecuteDone: the worker's own counter is not advanced.
ExecuteDoneGlobalOnly(c, ok) ==
    /\ pc[c] = "execute_wait"
    /\ LET w == sel[c]
           result == TaskResultOf(w, req[c].budget, ok)
       IN  /\ res' = [res EXCEPT ![c] = result]
           /\ agent_tasks' = agent_tasks
           /\ agent_earnings' = [agent_earnings EXCEPT
                                    ![w] = @ + StatsDelta(ok) * result.cost]
           /\ tasks_completed' = tasks_completed + StatsDelta(ok)
           /\ agent_status' = [agent_status EXCEPT ![w] = "idle"]
    /\ pc' = [pc EXCEPT ![c] = IF TopicReady("results") THEN "result_wait"
                                                        ELSE "raised"]
    /\ NoPublish
    /\ UNCHANGED <<mock_mode, live_workers, workers, topics, topicVars,
                   lifeVars, transactions, total_hbar_settled, req, sel,
                   settleVars>>
    /\ hist' = [hist EXCEPT ![c].backend = IF ok THEN "ok" ELSE "raised"]

\* worker.py:93-130 and broker.py:81-88: the fulfillment backend returned
\* (ok) or raised (~ok); the counters advance on success, the worker goes
\* idle in the finally, execute_task returns and the Broker starts the
\* publish of TASK_RESULT, raising when "results" has no id.
ExecuteDone(c, ok) ==
    /\ pc[c] = "execute_wait"
    /\ LET w == sel[c]
           result == TaskResultOf(w, req[c].budget, ok)
       IN  /\ res' = [res EXCEPT ![c] = result]
           /\ agent_tasks' = [agent_tasks EXCEPT ![w] = @ + StatsDelta(ok)]
           /\ agent_earnings' = [agent_earnings EXCEPT
                                    ![w] = @ + StatsDelta(ok) * result.cost]
           /\ tasks_completed' = tasks_completed + StatsDelta(ok)
           /\ agent_status' = [agent_status EXCEPT ![w] = "idle"]
    /\ pc' = [pc EXCEPT ![c] = IF TopicReady("results") THEN "result_wait"
                                                        ELSE "raised"]
    /\ NoPublish
    /\ UNCHANGED <<mock_mode, live_workers, workers, topics, topicVars, lifeVars,
                   transactions,
                   total_hbar_settled, req, sel, settleVars>>
    /\ hist' = [hist EXCEPT ![c].backend = IF ok THEN "ok" ELSE "raised"]

\* broker.py:82-91: TASK_RESULT is recorded, status idle, the result is
\* returned.
ResultPublished(c, sdkOk) ==
    /\ pc[c] = "result_wait"
    /\ Publish("results", Broker, "TASK_RESULT",
               Payload(c, res[c].worker, res[c].status, res[c].cost, NoTx),
               sdkOk)
    /\ agent_status' = [agent_status EXCEPT ![Broker] = "idle"]
    /\ pc' = [pc EXCEPT ![c] = "done"]
    /\ UNCHANGED <<mock_mode, live_workers, workers, topics, topicVars, lifeVars,
                   transactions,
                   tasks_completed, total_hbar_settled, agent_tasks,
                   agent_earnings, req, sel, res, hist, settleVars>>

\* ---------------------------------------------------------------- store

\* The n-th entry handed to add_message / add_transaction: entries are
\* told apart by their task id.
StoreMessage(n) ==
    [topic |-> "registry", sender |-> Registry, message_type |-> "HEARTBEAT",
     payload |-> Payload(n, "none", "none", 0, NoTx),
     sequence_number |-> DefaultSequenceNumber, tx_id |-> NoTx]

StoreTransaction(n) ==
    [task_id |-> n, worker_id |-> "w1", amount |-> 0, tx_id |-> NoTx,
     mock |-> TRUE]

\* The history after n appends to an empty one, n not above the cap.
FilledMessages(n) == [i \in 1..n |-> StoreMessage(i)]
FilledTransactions(n) == [i \in 1..n |-> StoreTransaction(i)]

\* The number of the entry appended last (0 for an empty history).
LastMessage == IF messages = <<>> THEN 0
               ELSE messages[Len(messages)].payload.task_id
LastTransaction == IF transactions = <<>> THEN 0
                   ELSE transactions[Len(transactions)].task_id

\* models.py:76-79: a call of add_message on the store
AddMessage ==
    /\ LastMessage < MessageCap + MaxAppends
    /\ messages' = add_message(messages, StoreMessage(LastMessage + 1))
    /\ UNCHANGED <<busVars, topicVars, lifeVars, live_workers, workers,
                   transactions,
                   tasks_completed, total_hbar_settled, agentVars, callVars,
                   settleVars>>

\* models.py:81-84: a call of add_transaction on the store
AddTransaction ==
    /\ LastTransaction < TransactionCap + MaxAppends
    /\ transactions' = add_transaction(transactions,
                                       StoreTransaction(LastTransaction + 1))
    /\ appended' = [appended EXCEPT
                        !.appends = @ + 1,
                        !.sum = @ + StoreTransaction(LastTransaction + 1).amount]
    /\ UNCHANGED <<busVars, topicVars, loopVars, rosterVars, snapshots,
                   live_workers, workers, messages,
                   tasks_completed, total_hbar_settled, agentVars, callVars,
                   settleVars>>

\* models.py:93: round(self.total_hbar_settled, 4), on units of 0.00001
\* (the amounts used are multiples of 0.0001: no half-way case arises).
Round4(x) == 10 * ((x + 5) \div 10)

\* Mutation of LastEntries: the first n entries.
FirstEntries(history, n) ==
    IF Len(history) > n THEN SubSeq(history, 1, n) ELSE history

\* The last n entries of a history (Python's history[-n:]).
LastEntries(history, n) ==
    IF Len(history) > n THEN SubSeq(history, Len(history) - n + 1, Len(history))
                        ELSE history

\* models.py:89-90: the last 20 messages, the last 10 transactions.
SnapshotMessages == 20
SnapshotTransactions == 10

\* models.py:86-99 EconomyState.snapshot: what an observer gets when it
\* reads the store between two steps of the agents.
snapshot ==
    [agents |-> [a \in Registered |->
                    [status |-> agent_status[a],
                     tasks_completed |-> agent_tasks[a],
                     earnings |-> agent_earnings[a]]],
     messages |-> LastEntries(messages, SnapshotMessages),
     transactions |-> LastEntries(transactions, SnapshotTransactions),
     tasks_completed |-> tasks_completed,
     total_hbar_settled |-> Round4(total_hbar_settled)]

\* models.py:86-99: a call of snapshot() on the store: the view is
\* returned, nothing is written.
Snapshot ==
    /\ Len(snapshots) < MaxSnapshots
    /\ snapshots' = Append(snapshots, snapshot)
    /\ UNCHANGED <<busVars, topicVars, storeVars, agentVars, callVars,
                   settleVars, loopVars, rosterVars, live_workers, workers,
                   appended>>

\* ----------------------------------------------------------- settlement

\* hedera_client.py:218-226 transfer_hbar: the tx id it returns
TransferTxId == IF mock_mode THEN [kind |-> "settlement", seq |-> 0]
                             ELSE [kind |-> "transfer", seq |-> 0]

\* Mutation of AfterSettle: the finally sets every agent idle.
AfterSettleEveryAgent(status) == [a \in Agents |-> "idle"]

\* Mutation of AfterSettle: no finally, the status is left as it is.
AfterSettleNoFinally(status) == status

\* settlement.py:83-84: finally: self.set_status("idle")
AfterSettle(status) == [status EXCEPT ![Settlement] = "idle"]

\* settlement.py:35-58: settle_task up to its first suspension: status
\* busy, then the transfer.  In mock mode transfer_hbar suspends (sleep);
\* in live mode it returns at once and the publish of PAYMENT starts, whose
\* topic check raises when "payments" has no id: the finally sets idle.
settle_task(s, task, worker, amount) ==
    /\ spc[s] = "ready"
    /\ sreq' = [sreq EXCEPT ![s] = [task |-> task, worker |-> worker,
                                    amount |-> amount]]
    /\ IF mock_mode
       THEN /\ agent_status' = [agent_status EXCEPT ![Settlement] = "busy"]
            /\ spc' = [spc EXCEPT ![s] = "transfer_wait"]
            /\ stx' = stx
       ELSE IF TopicReady("payments")
       THEN /\ agent_status' = [agent_status EXCEPT ![Settlement] = "busy"]
            /\ spc' = [spc EXCEPT ![s] = "payment_wait"]
            /\ stx' = [stx EXCEPT ![s] = TransferTxId]
       ELSE /\ agent_status' =
                    AfterSettle([agent_status EXCEPT ![Settlement] = "busy"])
            /\ spc' = [spc EXCEPT ![s] = "raised"]
            /\ stx' = [stx EXCEPT ![s] = TransferTxId]
    /\ NoPublish
    /\ UNCHANGED <<mock_mode, live_workers, workers, topics, topicVars,
                   transactions, tasks_completed, total_hbar_settled,
                   agent_tasks, agent_earnings, callVars>>

\* settle_task called directly, not from the run loop.
SettleTask(s, task, worker, amount) ==
    /\ settle_task(s, task, worker, amount)
    /\ UNCHANGED lifeVars

\* Mutation of TransferDone: a failure of the PAYMENT publish is swallowed,
\* the call returns as if it had settled.
TransferDoneSwallowing(s, ok) ==
    /\ spc[s] = "transfer_wait"
    /\ IF ok /\ TopicReady("payments")
       THEN /\ spc' = [spc EXCEPT ![s] = "payment_wait"]
            /\ agent_status' = agent_status
       ELSE /\ spc' = [spc EXCEPT ![s] = IF ok THEN "done" ELSE "raised"]
            /\ agent_status' = AfterSettle(agent_status)
    /\ stx' = [stx EXCEPT ![s] = IF ok THEN TransferTxId ELSE NoTx]
    /\ NoPublish
    /\ UNCHANGED <<mock_mode, live_workers, workers, topics, topicVars,
                   lifeVars, transactions, tasks_completed,
                   total_hbar_settled, agent_tasks, agent_earnings, callVars,
                   sreq>>

\* Mutation of TransferDone: the amount is added to the total as soon as
\* the transfer returned, before the record exists.
TransferDoneAdding(s, ok) ==
    /\ spc[s] = "transfer_wait"
    /\ IF ok /\ TopicReady("payments")
       THEN /\ spc' = [spc EXCEPT ![s] = "payment_wait"]
            /\ agent_status' = agent_status
       ELSE /\ spc' = [spc EXCEPT ![s] = "raised"]
            /\ agent_status' = AfterSettle(agent_status)
    /\ stx' = [stx EXCEPT ![s] = IF ok THEN TransferTxId ELSE NoTx]
    /\ total_hbar_settled' = total_hbar_settled + sreq[s].amount
    /\ NoPublish
    /\ UNCHANGED <<mock_mode, live_workers, workers, topics, topicVars,
                   lifeVars, transactions, tasks_completed, agent_tasks,
                   agent_earnings, callVars, sreq>>

\* settlement.py:43-58 and :80-84: the awaited transfer returned (ok) or
\* raised (~ok).  A failure passes the except (log, re-raise) and the
\* finally (idle).  On success the publish of PAYMENT starts; its topic
\* check raises when "payments" has no id, with the same cleanup.
TransferDone(s, ok) ==
    /\ spc[s] = "transfer_wait"
    /\ IF ok /\ TopicReady("payments")
       THEN /\ spc' = [spc EXCEPT ![s] = "payment_wait"]
            /\ agent_status' = agent_status
       ELSE /\ spc' = [spc EXCEPT ![s] = "raised"]
            /\ agent_status' = AfterSettle(agent_status)
    /\ stx' = [stx EXCEPT ![s] = IF ok THEN TransferTxId ELSE NoTx]
    /\ NoPublish
    /\ UNCHANGED <<mock_mode, live_workers, workers, topics, topicVars, lifeVars,
                   transactions,
                   tasks_completed, total_hbar_settled, agent_tasks,
                   agent_earnings, callVars, sreq>>

\* settlement.py:47-84: PAYMENT is recorded, the total and the transaction
\* history are updated, the finally sets idle, the tx id is returned.
PaymentPublished(s, sdkOk) ==
    /\ spc[s] = "payment_wait"
    /\ Publish("payments", Settlement, "PAYMENT",
               Payload(sreq[s].task, sreq[s].worker, "none",
                       sreq[s].amount, stx[s]), sdkOk)
    /\ total_hbar_settled' = total_hbar_settled + sreq[s].amount
    /\ transactions' = add_transaction(transactions,
            [task_id |-> sreq[s].task, worker_id |-> sreq[s].worker,
             amount |-> sreq[s].amount, tx_id |-> stx[s],
             mock |-> mock_mode])
    /\ agent_status' = AfterSettle(agent_status)
    /\ spc' = [spc EXCEPT ![s] = "done"]
    /\ appended' = [appends |-> appended.appends + 1,
                    sum |-> appended.sum + sreq[s].amount,
                    additions |-> appended.additions + 1]
    /\ UNCHANGED <<mock_mode, live_workers, workers, topics, topicVars,
                   loopVars, rosterVars, snapshots, tasks_completed,
                   agent_tasks, agent_earnings, callVars, sreq, stx>>

\* ------------------------------------------------------------ agent ids

\* base.py:20: the id is the agent type and the first six characters of
\* a random uuid; UuidPrefixes stands for the 16^6 prefixes.
UuidPrefixes == 1..MaxUuids
AgentId(a, u) == <<AgentType(a), u>>
AgentIds == {"registry", "broker", "settlement", "worker"} \X UuidPrefixes
NoId == <<>>

\* The agents constructed so far.
Constructed == {a \in Agents : agent_id[a] # NoId}

\* models.py:73-74 register_agent: agents[agent.agent_id] = agent, whatever
\* the dictionary held under that key.
register_agent(roster, id, a) == [roster EXCEPT ![id] = a]

\* base.py:12-35 BaseAgent.__init__: the id is drawn, the capability
\* record is built and registered in the store.
Construct(a, u) ==
    /\ a \notin Constructed
    /\ agent_id' = [agent_id EXCEPT ![a] = AgentId(a, u)]
    /\ agents' = register_agent(agents, AgentId(a, u), a)
    /\ workers' = workers \cup ({a} \cap AllWorkers)
    /\ UNCHANGED <<busVars, topicVars, storeVars, agentVars, callVars,
                   settleVars, loopVars, viewVars, live_workers>>

\* -------------------------------------------------------------- run loops

LoopAgents == {Registry, Broker, Settlement}
NoCall == 0

\* The stop signal of agent a: running (base.py:26) is set to False by
\* whoever holds the agent object; the run loops only read it.
Stop(a) ==
    /\ running[a]
    /\ running' = [running EXCEPT ![a] = FALSE]
    /\ UNCHANGED <<busVars, topicVars, storeVars, agentVars, callVars,
                   settleVars, rosterVars, viewVars, live_workers, workers,
                   registry_pc, settlement_loop, settlement_queue, queued,
                   broker_loop, task_queue>>

\* The HEARTBEAT messages published so far (a published message has the
\* tx id that submit_message returned).
Heartbeats ==
    {i \in 1..Len(messages) :
        /\ messages[i].message_type = "HEARTBEAT"
        /\ messages[i].tx_id # NoTx}

\* Mutation of LoopCheck: the loop is left after one turn.
LoopCheckOnce(a, again) == "ended"

\* What a run loop does when its body returned: `while self.running`.
LoopCheck(a, again) == IF running[a] THEN again ELSE "ended"

\* registry.py:23-25: run() is started and suspends in sleep(1).
RegistryRun ==
    /\ registry_pc = "off"
    /\ registry_pc' = "settling"
    /\ UNCHANGED <<busVars, topicVars, storeVars, agentVars, callVars,
                   settleVars, rosterVars, viewVars, live_workers, workers, running,
                   settlement_loop, settlement_queue, queued, broker_loop,
                   task_queue>>

\* registry.py:26-27 and :33-42: the sleep is over, _announce_registry
\* starts the publish of REGISTER; submit_message's topic check raises when
\* "registry" has no id, and nothing in run() handles it.
RegistryAnnounce ==
    /\ registry_pc = "settling"
    /\ registry_pc' = IF TopicReady("registry") THEN "announce_wait"
                                                ELSE "raised"
    /\ UNCHANGED <<busVars, topicVars, storeVars, agentVars, callVars,
                   settleVars, rosterVars, viewVars, live_workers, workers, running,
                   settlement_loop, settlement_queue, queued, broker_loop,
                   task_queue>>

\* registry.py:27-30: REGISTER is recorded; the loop condition is read and
\* run() suspends in sleep(heartbeat_interval), or returns.
RegistryAnnounced(sdkOk) ==
    /\ registry_pc = "announce_wait"
    /\ Publish("registry", Registry, "REGISTER",
               Payload(0, "none", "none", 0, NoTx), sdkOk)
    /\ registry_pc' = LoopCheck(Registry, "interval")
    /\ UNCHANGED <<mock_mode, topics, topicVars, transactions,
                   tasks_completed, total_hbar_settled, agentVars, callVars,
                   settleVars, rosterVars, viewVars, live_workers, workers, running,
                   settlement_loop, settlement_queue, queued, broker_loop,
                   task_queue>>

\* registry.py:30-31 and :44-55: the interval is over, _heartbeat starts
\* the publish of HEARTBEAT (the loop condition is not read again before
\* it); the topic check raises out of run() when "registry" has no id.
RegistryWake ==
    /\ registry_pc = "interval"
    /\ Cardinality(Heartbeats) < MaxHeartbeats
    /\ registry_pc' = IF TopicReady("registry") THEN "heartbeat_wait"
                                                ELSE "raised"
    /\ UNCHANGED <<busVars, topicVars, storeVars, agentVars, callVars,
                   settleVars, rosterVars, viewVars, live_workers, workers, running,
                   settlement_loop, settlement_queue, queued, broker_loop,
                   task_queue>>

\* registry.py:29-31: HEARTBEAT is recorded; the loop condition is read.
RegistryHeartbeat(sdkOk) ==
    /\ registry_pc = "heartbeat_wait"
    /\ Publish("registry", Registry, "HEARTBEAT",
               Payload(0, "none", "none", total_hbar_settled, NoTx), sdkOk)
    /\ registry_pc' = LoopCheck(Registry, "interval")
    /\ UNCHANGED <<mock_mode, topics, topicVars, transactions,
                   tasks_completed, total_hbar_settled, agentVars, callVars,
                   settleVars, rosterVars, viewVars, live_workers, workers, running,
                   settlement_loop, settlement_queue, queued, broker_loop,
                   task_queue>>

\* The first call slot not used yet (NoCall when all are).
FirstReady(state, slots) ==
    IF \E s \in slots : state[s] = "ready"
    THEN CHOOSE s \in slots :
            /\ state[s] = "ready"
            /\ \A r \in slots : state[r] = "ready" => s <= r
    ELSE NoCall

\* settlement.py:103-109 queue_settlement: put on a queue constructed
\* without maxsize (settlement.py:22), which takes every item at once.
\* The tasks are numbered in the order their settlements are enqueued.
queue_settlement(worker, amount) ==
    /\ queued < MaxSettles
    /\ settlement_queue' = Append(settlement_queue,
            [task |-> queued + 1, worker |-> worker, amount |-> amount])
    /\ queued' = queued + 1
    /\ UNCHANGED <<busVars, topicVars, storeVars, agentVars, callVars,
                   settleVars, rosterVars, viewVars, live_workers, workers, running,
                   registry_pc, settlement_loop, broker_loop, task_queue>>

\* settlement.py:24-28: run() is started, reads the loop condition and
\* suspends in wait_for(get).
SettlementRun ==
    /\ settlement_loop.pc = "off"
    /\ settlement_loop' = [pc |-> LoopCheck(Settlement, "waiting"),
                           call |-> NoCall]
    /\ UNCHANGED <<busVars, topicVars, storeVars, agentVars, callVars,
                   settleVars, rosterVars, viewVars, live_workers, workers, running,
                   registry_pc, settlement_queue, queued, broker_loop,
                   task_queue>>

\* settlement.py:27-31 and :96-101: get returns the head of the queue
\* (the loop condition is not read again) and _settle calls settle_task
\* with it, up to its first suspension; an exception of settle_task is
\* not a TimeoutError and leaves run().
SettlementGet ==
    LET s == FirstReady(spc, Settles)
        item == Head(settlement_queue)
    IN  /\ settlement_loop.pc = "waiting"
        /\ settlement_queue # <<>>
        /\ s # NoCall
        /\ settle_task(s, item.task, item.worker, item.amount)
        /\ settlement_queue' = Tail(settlement_queue)
        /\ settlement_loop' =
                [pc |-> IF spc'[s] = "raised" THEN "raised"
                                              ELSE "processing",
                 call |-> s]
        /\ UNCHANGED <<rosterVars, viewVars, running, registry_pc, queued,
                       broker_loop, task_queue>>

\* settlement.py:27-33: settle_task returned (the loop condition is read,
\* then the next get) or raised (the exception leaves run(): the except
\* clause names TimeoutError only).
SettlementResume ==
    /\ settlement_loop.pc = "processing"
    /\ spc[settlement_loop.call] \in {"done", "raised"}
    /\ settlement_loop' =
            [settlement_loop EXCEPT !.pc =
                IF spc[settlement_loop.call] = "raised"
                THEN "raised" ELSE LoopCheck(Settlement, "waiting")]
    /\ UNCHANGED <<busVars, topicVars, storeVars, agentVars, callVars,
                   settleVars, rosterVars, viewVars, live_workers, workers, running,
                   registry_pc, settlement_queue, queued, broker_loop,
                   task_queue>>

\* settlement.py:27-33: get timed out on the empty queue after the stop
\* signal: the loop condition is read and run() returns.  (While running
\* is set, a timeout leads back to the same wait.)
SettlementTimeout ==
    /\ settlement_loop.pc = "waiting"
    /\ settlement_queue = <<>>
    /\ ~running[Settlement]
    /\ settlement_loop' = [settlement_loop EXCEPT !.pc = "ended"]
    /\ UNCHANGED <<busVars, topicVars, storeVars, agentVars, callVars,
                   settleVars, rosterVars, viewVars, live_workers, workers, running,
                   registry_pc, settlement_queue, queued, broker_loop,
                   task_queue>>

\* broker.py:23: the Broker's queue, constructed without maxsize.  No code
\* of the repository puts a task on it; a put by a holder of the queue
\* takes the item at once.
TaskQueuePut(task_type, budget) ==
    /\ Len(task_queue) + Cardinality({c \in Calls : pc[c] # "ready"})
            < MaxCalls
    /\ task_queue' = Append(task_queue,
                            [task_type |-> task_type, budget |-> budget])
    /\ UNCHANGED <<busVars, topicVars, storeVars, agentVars, callVars,
                   settleVars, rosterVars, viewVars, live_workers, workers, running,
                   registry_pc, settlement_loop, settlement_queue, queued,
                   broker_loop>>

\* broker.py:26-30: run() is started, reads the loop condition and
\* suspends in wait_for(get).
BrokerRun ==
    /\ broker_loop.pc = "off"
    /\ broker_loop' = [pc |-> LoopCheck(Broker, "waiting"), call |-> NoCall]
    /\ UNCHANGED <<busVars, topicVars, storeVars, agentVars, callVars,
                   settleVars, rosterVars, viewVars, live_workers, workers, running,
                   registry_pc, settlement_loop, settlement_queue, queued,
                   task_queue>>

\* broker.py:29-31 and :128-129: get returns the head of the queue (the
\* loop condition is not read again) and _process_task calls submit_task
\* with it, up to its first suspension.
BrokerGet ==
    LET c == FirstReady(pc, Calls)
        task == Head(task_queue)
    IN  /\ broker_loop.pc = "waiting"
        /\ task_queue # <<>>
        /\ c # NoCall
        /\ submit_task(c, task.task_type, task.budget)
        /\ task_queue' = Tail(task_queue)
        /\ broker_loop' =
                [pc |-> IF pc'[c] = "raised" THEN "raised" ELSE "processing",
                 call |-> c]
        /\ UNCHANGED <<rosterVars, viewVars, running, registry_pc, settlement_loop,
                       settlement_queue, queued>>

\* broker.py:29-33: submit_task returned or raised.
BrokerResume ==
    /\ broker_loop.pc = "processing"
    /\ pc[broker_loop.call] \in {"done", "raised"}
    /\ broker_loop' =
            [broker_loop EXCEPT !.pc =
                IF pc[broker_loop.call] = "raised"
                THEN "raised" ELSE LoopCheck(Broker, "waiting")]
    /\ UNCHANGED <<busVars, topicVars, storeVars, agentVars, callVars,
                   settleVars, rosterVars, viewVars, live_workers, workers, running,
                   registry_pc, settlement_loop, settlement_queue, queued,
                   task_queue>>

\* broker.py:29-33: get timed out on the empty queue after the stop signal.
BrokerTimeout ==
    /\ broker_loop.pc = "waiting"
    /\ task_queue = <<>>
    /\ ~running[Broker]
    /\ broker_loop' = [broker_loop EXCEPT !.pc = "ended"]
    /\ UNCHANGED <<busVars, topicVars, storeVars, agentVars, callVars,
                   settleVars, rosterVars, viewVars, live_workers, workers, running,
                   registry_pc, settlement_loop, settlement_queue, queued,
                   task_queue>>

\* base.py:26 and the queues as constructed (broker.py:23,
\* settlement.py:22): running set, no run() started, empty queues.
LoopInit ==
    /\ running = [a \in LoopAgents |-> TRUE]
    /\ registry_pc = "off"
    /\ settlement_loop = [pc |-> "off", call |-> NoCall]
    /\ settlement_queue = <<>>
    /\ queued = 0
    /\ broker_loop = [pc |-> "off", call |-> NoCall]
    /\ task_queue = <<>>

\* The uuid prefix of each agent when all prefixes differ.
DistinctUuid(a) == IF a = "w2" THEN 2 ELSE 1

\* The store's transactions were all appended by settlements made before:
\* as many additions as records, summing to the total.
AppendedBefore ==
    [appends |-> Len(transactions), sum |-> total_hbar_settled,
     additions |-> Len(transactions)]

\* main.py:61-69 when the drawn ids differ: one record per constructed
\* agent (the rosters of the submit_task and settle_task specifications).
LifeInit ==
    /\ LoopInit
    /\ agent_id = [a \in Agents |->
                      IF a \in Registered THEN AgentId(a, DistinctUuid(a))
                                          ELSE NoId]
    /\ agents = [i \in AgentIds |->
                    IF \E a \in Registered : AgentId(a, DistinctUuid(a)) = i
                    THEN CHOOSE a \in Registered :
                            AgentId(a, DistinctUuid(a)) = i
                    ELSE "none"]
    /\ snapshots = <<>>
    /\ appended = AppendedBefore

\* ------------------------------------------------------- specification

\* The state after construction (hedera_client.py:35-46, models.py:64-71,
\* base.py:12-35): no topic id, no counter, empty histories, every agent
\* idle with zero counters, no call made yet.  No topic id is configured
\* in the environment and ensure_topics is called once (main.py:72).
InitWith(mode) ==
    /\ mock_mode = mode
    /\ env_names = {}
    /\ ens = [calls_left |-> 1, pos |-> 0]
    /\ net_created = 0
    /\ ensured = <<>>
    /\ live_workers \in BOOLEAN
    /\ workers \in WorkerSets
    /\ topics = [t \in TopicNames |-> 0]
    /\ message_seq = [t \in TopicNames |-> 0]
    /\ emitted = [t \in TopicNames |-> <<>>]
    /\ messages = <<>>
    /\ transactions = <<>>
    /\ tasks_completed = 0
    /\ total_hbar_settled = 0
    /\ agent_status = [a \in Agents |-> "idle"]
    /\ agent_tasks = [a \in Agents |-> 0]
    /\ agent_earnings = [a \in Agents |-> 0]
    /\ pc = [c \in Calls |-> "ready"]
    /\ req = [c \in Calls |-> NoReq]
    /\ sel = [c \in Calls |-> "none"]
    /\ res = [c \in Calls |-> NoRes]
    /\ spc = [s \in Settles |-> "ready"]
    /\ sreq = [s \in Settles |-> NoSettle]
    /\ stx = [s \in Settles |-> NoTx]
    /\ hist = [c \in Calls |-> NoHist]
    /\ LifeInit

\* A bus and a store just constructed (main.py:52-59), before any agent is
\* constructed against them.
ConstructInit ==
    /\ mock_mode = TRUE
    /\ env_names = {}
    /\ ens = [calls_left |-> 1, pos |-> 0]
    /\ net_created = 0
    /\ ensured = <<>>
    /\ live_workers = TRUE
    /\ workers = {}
    /\ topics = [t \in TopicNames |-> 0]
    /\ message_seq = [t \in TopicNames |-> 0]
    /\ emitted = [t \in TopicNames |-> <<>>]
    /\ messages = <<>>
    /\ transactions = <<>>
    /\ tasks_completed = 0
    /\ total_hbar_settled = 0
    /\ agent_status = [a \in Agents |-> "idle"]
    /\ agent_tasks = [a \in Agents |-> 0]
    /\ agent_earnings = [a \in Agents |-> 0]
    /\ pc = [c \in Calls |-> "ready"]
    /\ req = [c \in Calls |-> NoReq]
    /\ sel = [c \in Calls |-> "none"]
    /\ res = [c \in Calls |-> NoRes]
    /\ spc = [s \in Settles |-> "ready"]
    /\ sreq = [s \in Settles |-> NoSettle]
    /\ stx = [s \in Settles |-> NoTx]
    /\ hist = [c \in Calls |-> NoHist]
    /\ LoopInit
    /\ agent_id = [a \in Agents |-> NoId]
    /\ agents = [i \in AgentIds |-> "none"]
    /\ snapshots = <<>>
    /\ appended = AppendedBefore

\* Messages in the history when the writers start: a few below the cap.
Prefill == MessageCap - (MaxAppends \div 2)

\* The program after main.py:72 (the topics have their mock ids), with a
\* message history of Prefill entries: the agents are about to publish.
PublishInit ==
    /\ mock_mode = TRUE
    /\ env_names = {}
    /\ ens = [calls_left |-> 0, pos |-> 0]
    /\ net_created = 0
    /\ topics = [t \in TopicNames |-> MockTopicId(t)]
    /\ ensured = <<topics>>
    /\ live_workers = TRUE
    /\ workers = {"w1", "w2"}
    /\ message_seq = [t \in TopicNames |-> 0]
    /\ emitted = [t \in TopicNames |-> <<>>]
    /\ messages = FilledMessages(Prefill)
    /\ transactions = <<>>
    /\ tasks_completed = 0
    /\ total_hbar_settled = 0
    /\ agent_status = [a \in Agents |-> "idle"]
    /\ agent_tasks = [a \in Agents |-> 0]
    /\ agent_earnings = [a \in Agents |-> 0]
    /\ pc = [c \in Calls |-> "ready"]
    /\ req = [c \in Calls |-> NoReq]
    /\ sel = [c \in Calls |-> "none"]
    /\ res = [c \in Calls |-> NoRes]
    /\ spc = [s \in Settles |-> "ready"]
    /\ sreq = [s \in Settles |-> NoSettle]
    /\ stx = [s \in Settles |-> NoTx]
    /\ hist = [c \in Calls |-> NoHist]
    /\ LifeInit

\* Stores whose histories hold up to MaxAppends entries fewer or more than
\* a snapshot shows, with any registered workers, idle or busy.
ViewInit ==
    /\ mock_mode = TRUE
    /\ env_names = {}
    /\ ens = [calls_left |-> 1, pos |-> 0]
    /\ net_created = 0
    /\ ensured = <<>>
    /\ live_workers = TRUE
    /\ workers \in WorkerSets
    /\ topics = [t \in TopicNames |-> 0]
    /\ message_seq = [t \in TopicNames |-> 0]
    /\ emitted = [t \in TopicNames |-> <<>>]
    /\ \E n \in (SnapshotMessages - MaxAppends)
                    ..(SnapshotMessages + MaxAppends) :
            messages = FilledMessages(n)
    /\ \E n \in (SnapshotTransactions - MaxAppends)
                    ..(SnapshotTransactions + MaxAppends) :
            transactions = FilledTransactions(n)
    /\ tasks_completed = 0
    /\ total_hbar_settled = 0
    /\ agent_status \in [Agents -> {"idle", "busy"}]
    /\ \A a \in Agents \ workers : agent_status[a] = "idle"
    /\ agent_tasks = [a \in Agents |-> 0]
    /\ agent_earnings = [a \in Agents |-> 0]
    /\ pc = [c \in Calls |-> "ready"]
    /\ req = [c \in Calls |-> NoReq]
    /\ sel = [c \in Calls |-> "none"]
    /\ res = [c \in Calls |-> NoRes]
    /\ spc = [s \in Settles |-> "ready"]
    /\ sreq = [s \in Settles |-> NoSettle]
    /\ stx = [s \in Settles |-> NoTx]
    /\ hist = [c \in Calls |-> NoHist]
    /\ LifeInit

\* A transaction record left by an earlier settlement (of 0.0004 HBAR).
SettledTransaction(n) ==
    [task_id |-> n, worker_id |-> "w1", amount |-> 40,
     tx_id |-> [kind |-> "settlement", seq |-> 0], mock |-> TRUE]

\* Settlements made before: one fewer than the transaction history keeps.
SettledBefore == TransactionCap - 1

\* The program after SettledBefore settlements of 0.0004 HBAR each: the
\* topics have their ids, the history holds the records, the total is
\* their sum.
SettledInit ==
    /\ mock_mode = TRUE
    /\ env_names = {}
    /\ ens = [calls_left |-> 0, pos |-> 0]
    /\ net_created = 0
    /\ topics = [t \in TopicNames |-> MockTopicId(t)]
    /\ ensured = <<topics>>
    /\ live_workers = TRUE
    /\ workers = {"w1", "w2"}
    /\ message_seq = [t \in TopicNames |-> 0]
    /\ emitted = [t \in TopicNames |-> <<>>]
    /\ messages = <<>>
    /\ transactions = [i \in 1..SettledBefore |-> SettledTransaction(i)]
    /\ tasks_completed = 0
    /\ total_hbar_settled = 40 * SettledBefore
    /\ agent_status = [a \in Agents |-> "idle"]
    /\ agent_tasks = [a \in Agents |-> 0]
    /\ agent_earnings = [a \in Agents |-> 0]
    /\ pc = [c \in Calls |-> "ready"]
    /\ req = [c \in Calls |-> NoReq]
    /\ sel = [c \in Calls |-> "none"]
    /\ res = [c \in Calls |-> NoRes]
    /\ spc = [s \in Settles |-> "ready"]
    /\ sreq = [s \in Settles |-> NoSettle]
    /\ stx = [s \in Settles |-> NoTx]
    /\ hist = [c \in Calls |-> NoHist]
    /\ LifeInit

\* Mode is chosen once, at construction (hedera_client.py:43): mock when no
\* private key is configured, which is how main.py boots by default.
Init == InitWith(TRUE)
LiveInit == InitWith(FALSE)
AnyInit == \E mode \in BOOLEAN : InitWith(mode)

\* Rosters for worker selection: each registered worker is idle or busy
\* and has completed up to MaxTasks tasks (of budget 3, for 0.8 of it each);
\* the store's counter is their sum.  Everything else is as constructed.
SelectInit ==
    /\ mock_mode = TRUE
    /\ env_names = {}
    /\ ens = [calls_left |-> 1, pos |-> 0]
    /\ net_created = 0
    /\ ensured = <<>>
    /\ live_workers \in BOOLEAN
    /\ workers \in WorkerSets
    /\ topics = [t \in TopicNames |-> 0]
    /\ message_seq = [t \in TopicNames |-> 0]
    /\ emitted = [t \in TopicNames |-> <<>>]
    /\ messages = <<>>
    /\ transactions = <<>>
    /\ total_hbar_settled = 0
    /\ agent_status \in [Agents -> {"idle", "busy"}]
    /\ \A a \in Agents \ workers : agent_status[a] = "idle"
    /\ agent_tasks \in [Agents -> 0..MaxTasks]
    /\ \A a \in Agents \ workers : agent_tasks[a] = 0
    /\ tasks_completed = agent_tasks["w1"] + agent_tasks["w2"]
    /\ agent_earnings = [a \in Agents |-> agent_tasks[a] * WorkerCost(3)]
    /\ pc = [c \in Calls |-> "ready"]
    /\ req = [c \in Calls |-> NoReq]
    /\ sel = [c \in Calls |-> "none"]
    /\ res = [c \in Calls |-> NoRes]
    /\ spc = [s \in Settles |-> "ready"]
    /\ sreq = [s \in Settles |-> NoSettle]
    /\ stx = [s \in Settles |-> NoTx]
    /\ hist = [c \in Calls |-> NoHist]
    /\ LifeInit

\* Stores whose histories were filled up to MaxAppends entries below the
\* retention caps.
StoreInit ==
    /\ mock_mode = TRUE
    /\ env_names = {}
    /\ ens = [calls_left |-> 1, pos |-> 0]
    /\ net_created = 0
    /\ ensured = <<>>
    /\ live_workers = TRUE
    /\ workers = {"w1", "w2"}
    /\ topics = [t \in TopicNames |-> 0]
    /\ message_seq = [t \in TopicNames |-> 0]
    /\ emitted = [t \in TopicNames |-> <<>>]
    /\ \E n \in (MessageCap - MaxAppends)..MessageCap :
            messages = FilledMessages(n)
    /\ \E n \in (TransactionCap - MaxAppends)..TransactionCap :
            transactions = FilledTransactions(n)
    /\ tasks_completed = 0
    /\ total_hbar_settled = 0
    /\ agent_status = [a \in Agents |-> "idle"]
    /\ agent_tasks = [a \in Agents |-> 0]
    /\ agent_earnings = [a \in Agents |-> 0]
    /\ pc = [c \in Calls |-> "ready"]
    /\ req = [c \in Calls |-> NoReq]
    /\ sel = [c \in Calls |-> "none"]
    /\ res = [c \in Calls |-> NoRes]
    /\ spc = [s \in Settles |-> "ready"]
    /\ sreq = [s \in Settles |-> NoSettle]
    /\ stx = [s \in Settles |-> NoTx]
    /\ hist = [c \in Calls |-> NoHist]
    /\ LifeInit

\* Environments: no topic id configured, some, all.
EnvConfigs == {{}, {"registry", "results"}, TopicNames}

\* A bus of either mode, under each environment, on which ensure_topics is
\* called MaxEnsures times.
TopicInit ==
    /\ mock_mode \in BOOLEAN
    /\ env_names \in EnvConfigs
    /\ ens = [calls_left |-> MaxEnsures, pos |-> 0]
    /\ net_created = 0
    /\ ensured = <<>>
    /\ live_workers = TRUE
    /\ workers = {"w1", "w2"}
    /\ topics = [t \in TopicNames |-> 0]
    /\ message_seq = [t \in TopicNames |-> 0]
    /\ emitted = [t \in TopicNames |-> <<>>]
    /\ messages = <<>>
    /\ transactions = <<>>
    /\ tasks_completed = 0
    /\ total_hbar_settled = 0
    /\ agent_status = [a \in Agents |-> "idle"]
    /\ agent_tasks = [a \in Agents |-> 0]
    /\ agent_earnings = [a \in Agents |-> 0]
    /\ pc = [c \in Calls |-> "ready"]
    /\ req = [c \in Calls |-> NoReq]
    /\ sel = [c \in Calls |-> "none"]
    /\ res = [c \in Calls |-> NoRes]
    /\ spc = [s \in Settles |-> "ready"]
    /\ sreq = [s \in Settles |-> NoSettle]
    /\ stx = [s \in Settles |-> NoTx]
    /\ hist = [c \in Calls |-> NoHist]
    /\ LifeInit

\* The Broker and the Settlement agent share the bus and the store but
\* never call each other (no caller of settle_task or queue_settlement
\* exists in the repository); each protocol is explored on its own with
\* the bus, and the two together under FullSpec.
BrokerNext ==
    \/ ensure_topics
    \/ \E c \in Calls, tt \in TaskTypes, b \in Budgets : SubmitTask(c, tt, b)
    \/ \E c \in Calls, sdkOk \in SdkOutcomes : RequestPublished(c, sdkOk)
    \/ \E c \in Calls, sdkOk \in SdkOutcomes : AssignPublished(c, sdkOk)
    \/ \E c \in Calls, ok \in BOOLEAN : ExecuteDone(c, ok)
    \/ \E c \in Calls, sdkOk \in SdkOutcomes : ResultPublished(c, sdkOk)

\* One submit_task call, with every budget.
CostNext ==
    \/ ensure_topics
    \/ \E tt \in TaskTypes, b \in AllBudgets : SubmitTask(1, tt, b)
    \/ \E sdkOk \in SdkOutcomes : RequestPublished(1, sdkOk)
    \/ \E sdkOk \in SdkOutcomes : AssignPublished(1, sdkOk)
    \/ \E ok \in BOOLEAN : ExecuteDone(1, ok)
    \/ \E sdkOk \in SdkOutcomes : ResultPublished(1, sdkOk)

\* submit_task calls followed up to worker selection (broker.py:49), on
\* every task type: no worker starts or ends a task, the roster stays as
\* it was constructed.
SelectNext ==
    \/ ensure_topics
    \/ \E c \in Calls, tt \in SelectTypes : SubmitTask(c, tt, 3)
    \/ \E c \in Calls, sdkOk \in SdkOutcomes : RequestPublished(c, sdkOk)

\* ensure_topics called MaxEnsures times, one call after the other.
TopicNext ==
    \/ ensure_topics
    \/ \E sdkOk \in BOOLEAN : TopicCreated(sdkOk)

\* One submit_task call and one settle_task call, interleaved.
SnapshotNext ==
    \/ ensure_topics
    \/ \E tt \in TaskTypes, b \in Budgets : SubmitTask(1, tt, b)
    \/ \E sdkOk \in SdkOutcomes : RequestPublished(1, sdkOk)
    \/ \E sdkOk \in SdkOutcomes : AssignPublished(1, sdkOk)
    \/ \E ok \in BOOLEAN : ExecuteDone(1, ok)
    \/ \E sdkOk \in SdkOutcomes : ResultPublished(1, sdkOk)
    \/ \E w \in SettleWorkers, a \in Amounts : SettleTask(1, 1, w, a)
    \/ \E ok \in BOOLEAN : TransferDone(1, ok)
    \/ \E sdkOk \in SdkOutcomes : PaymentPublished(1, sdkOk)

\* add_message and add_transaction called on the store, in any order.
StoreNext == AddMessage \/ AddTransaction

SettleNext ==
    \/ ensure_topics
    \/ \E s \in Settles, c \in Calls, w \in SettleWorkers, a \in Amounts :
            SettleTask(s, c, w, a)
    \/ \E s \in Settles, ok \in BOOLEAN : TransferDone(s, ok)
    \/ \E s \in Settles, sdkOk \in SdkOutcomes : PaymentPublished(s, sdkOk)


\* Live mode: the topics are created one by one.
LiveBrokerNext ==
    \/ BrokerNext
    \/ \E sdkOk \in BOOLEAN : TopicCreated(sdkOk)

\* Live mode: transfer_hbar does not suspend, so TransferDone has no step.
LiveSettleNext ==
    \/ ensure_topics
    \/ \E sdkOk \in BOOLEAN : TopicCreated(sdkOk)
    \/ \E s \in Settles, c \in Calls, w \in SettleWorkers, a \in Amounts :
            SettleTask(s, c, w, a)
    \/ \E s \in Settles, sdkOk \in SdkOutcomes : PaymentPublished(s, sdkOk)

\* RegistryAgent.run on a bus on which ensure_topics is called at some
\* time (main.py:72-75 calls it first), with the stop signal.
RegistryNext ==
    \/ ensure_topics
    \/ \E sdkOk \in BOOLEAN : TopicCreated(sdkOk)
    \/ RegistryRun
    \/ RegistryAnnounce
    \/ \E sdkOk \in SdkOutcomes : RegistryAnnounced(sdkOk)
    \/ RegistryWake
    \/ \E sdkOk \in SdkOutcomes : RegistryHeartbeat(sdkOk)
    \/ Stop(Registry)

\* SettlementAgent.run fed through queue_settlement, with the stop signal.
SettleLoopNext ==
    \/ ensure_topics
    \/ \E w \in SettleWorkers, a \in Amounts : queue_settlement(w, a)
    \/ SettlementRun
    \/ SettlementGet
    \/ \E s \in Settles, ok \in BOOLEAN : TransferDone(s, ok)
    \/ \E s \in Settles, sdkOk \in SdkOutcomes : PaymentPublished(s, sdkOk)
    \/ SettlementResume
    \/ SettlementTimeout
    \/ Stop(Settlement)

\* The steps of the Settlement agent's run() coroutine, which the event
\* loop takes whenever the coroutine can go on.
SettlementSteps ==
    \/ SettlementRun
    \/ SettlementGet
    \/ \E s \in Settles, ok \in BOOLEAN : TransferDone(s, ok)
    \/ \E s \in Settles, sdkOk \in SdkOutcomes : PaymentPublished(s, sdkOk)
    \/ SettlementResume
    \/ SettlementTimeout

\* BrokerAgent.run fed by puts on its queue, with the stop signal.
BrokerLoopNext ==
    \/ ensure_topics
    \/ \E tt \in TaskTypes, b \in Budgets : TaskQueuePut(tt, b)
    \/ BrokerRun
    \/ BrokerGet
    \/ \E c \in Calls, sdkOk \in SdkOutcomes : RequestPublished(c, sdkOk)
    \/ \E c \in Calls, sdkOk \in SdkOutcomes : AssignPublished(c, sdkOk)
    \/ \E c \in Calls, ok \in BOOLEAN : ExecuteDone(c, ok)
    \/ \E c \in Calls, sdkOk \in SdkOutcomes : ResultPublished(c, sdkOk)
    \/ BrokerResume
    \/ BrokerTimeout
    \/ Stop(Broker)

\* Three writers at once: the Registry's loop, one submit_task call of the
\* Broker and one settle_task call of the Settlement agent.
PublishNext ==
    \/ RegistryRun
    \/ RegistryAnnounce
    \/ \E sdkOk \in SdkOutcomes : RegistryAnnounced(sdkOk)
    \/ RegistryWake
    \/ \E sdkOk \in SdkOutcomes : RegistryHeartbeat(sdkOk)
    \/ \E tt \in TaskTypes, b \in Budgets : SubmitTask(1, tt, b)
    \/ \E sdkOk \in SdkOutcomes : RequestPublished(1, sdkOk)
    \/ \E sdkOk \in SdkOutcomes : AssignPublished(1, sdkOk)
    \/ \E ok \in BOOLEAN : ExecuteDone(1, ok)
    \/ \E sdkOk \in SdkOutcomes : ResultPublished(1, sdkOk)
    \/ \E w \in SettleWorkers, a \in Amounts : SettleTask(1, 1, w, a)
    \/ \E ok \in BOOLEAN : TransferDone(1, ok)
    \/ \E sdkOk \in SdkOutcomes : PaymentPublished(1, sdkOk)

\* The agents are constructed against the store, in any order, each with
\* any uuid prefix.
ConstructNext == \E a \in Agents, u \in UuidPrefixes : Construct(a, u)

\* snapshot() called on the store.
ViewNext == Snapshot

\* settle_task calls (overlapping) on a bus whose topics are there.
SettledNext ==
    \/ \E s \in Settles, c \in Calls, w \in SettleWorkers, a \in Amounts :
            SettleTask(s, c, w, a)
    \/ \E s \in Settles, ok \in BOOLEAN : TransferDone(s, ok)
    \/ \E s \in Settles, sdkOk \in SdkOutcomes : PaymentPublished(s, sdkOk)

Next ==
    \/ BrokerNext
    \/ ConstructNext
    \/ ViewNext
    \/ SettledNext
    \/ PublishNext
    \/ RegistryNext
    \/ SettleLoopNext
    \/ BrokerLoopNext
    \/ CostNext
    \/ SelectNext
    \/ StoreNext
    \/ SettleNext
    \/ SnapshotNext
    \/ TopicNext

\* submit_task calls (overlapping) on a mock-mode bus
Spec == Init /\ [][BrokerNext]_vars
\* one submit_task call with any budget, on a mock-mode bus
CostSpec == Init /\ [][CostNext]_vars
\* worker selection on every roster and task type
SelectSpec == SelectInit /\ [][SelectNext]_vars
\* add_message / add_transaction around the retention caps
StoreSpec == StoreInit /\ [][StoreNext]_vars
\* repeated ensure_topics calls, both modes
TopicSpec == TopicInit /\ [][TopicNext]_vars
\* The program as main.py wires it: POST /task calls submit_task
\* (main.py:147-153); settle_task and queue_settlement have no caller, and
\* SettlementAgent.run (settlement.py:24-33) only waits on its own queue,
\* which stays empty, so no step of the Settlement agent occurs.  Every
\* started coroutine is resumed by the event loop (weak fairness).
LifecycleSpec == Init /\ [][BrokerNext]_vars /\ WF_vars(BrokerNext)
\* three agents publishing at the same time, around the retention cap
PublishSpec == PublishInit /\ [][PublishNext]_vars
\* snapshot() on stores around the sizes of its slices
ViewSpec == ViewInit /\ [][ViewNext]_vars
\* settle_task calls on a store whose transaction history is about to
\* evict
SettledSpec == SettledInit /\ [][SettledNext]_vars
\* construction of the agents against an empty store
ConstructSpec == ConstructInit /\ [][ConstructNext]_vars
\* the Registry's run loop, on a bus of either mode
RegistrySpec == AnyInit /\ [][RegistryNext]_vars
\* the Settlement agent's run loop and its queue, mock-mode bus
SettleLoopSpec == Init /\ [][SettleLoopNext]_vars
\* the same, run() started (main.py:77) and resumed by the event loop
\* whenever it can go on (weak fairness)
SettleLoopFairSpec ==
    Init /\ [][SettleLoopNext]_vars /\ WF_vars(SettlementSteps)
\* the Broker's run loop and its queue, mock-mode bus
BrokerLoopSpec == Init /\ [][BrokerLoopNext]_vars
\* a snapshot between any two steps of one submit_task and one settle_task
SnapshotSpec == Init /\ [][SnapshotNext]_vars
\* settle_task calls (overlapping) on a mock-mode bus
SettleSpec == Init /\ [][SettleNext]_vars
\* the same on a live-mode bus
LiveSpec == LiveInit /\ [][LiveBrokerNext]_vars
LiveSettleSpec == LiveInit /\ [][LiveSettleNext]_vars
\* every step of the model, mock mode
FullSpec == Init /\ [][Next]_vars

\* ---------------------------------------------------------------- claims

\* The calls that have an execute_task invocation in progress on worker w.
Executing(w) == {c \in Calls : pc[c] = "execute_wait" /\ sel[c] = w}

\* Messages of the history that carry task id c and one of the given types.
TaskMessages(c, types) ==
    {i \in 1..Len(messages) :
        messages[i].payload.task_id = c /\ messages[i].message_type \in types}

\* C1: for every topic, the sequence numbers the bus emits for it are
\* 1, 2, 3, ... in emission order, whatever the interleaving of publishers.
C1_SequenceGapless ==
    \A t \in TopicNames : \A i \in 1..Len(emitted[t]) : emitted[t][i] = i

\* C1 witness: two overlapping submit_task calls have published on "tasks"
\* in alternation (call a, call b, call a) and "results" was published too.
C1_Witness ==
    /\ Len(emitted["results"]) >= 1
    /\ \E i \in 1..(Len(messages) - 2) :
        /\ messages[i].topic = "tasks"
        /\ messages[i + 1].topic = "tasks"
        /\ messages[i + 2].topic = "tasks"
        /\ messages[i].payload.task_id # messages[i + 1].payload.task_id
        /\ messages[i].payload.task_id = messages[i + 2].payload.task_id

\* C2 (as claimed): every recorded message carries a sequence_number given
\* by the bus (not the caller's initial value), and of two messages of one
\* topic recorded one after the other the later has the larger number.
C2_SequenceNumberAssigned ==
    /\ \A i \in 1..Len(messages) :
        messages[i].sequence_number # DefaultSequenceNumber
    /\ \A i, j \in 1..Len(messages) :
        (i < j /\ messages[i].topic = messages[j].topic)
            => messages[i].sequence_number < messages[j].sequence_number

\* C3 (as claimed): no worker ever has two execute_task invocations in
\* progress at the same moment.
C3_NoConcurrentExecution ==
    \A w \in AllWorkers : Cardinality(Executing(w)) <= 1

\* C4 (as claimed): a worker with an execute_task invocation in progress
\* has status busy.
C4_BusyWhileExecuting ==
    \A w \in AllWorkers : Executing(w) # {} => agent_status[w] = "busy"

\* C5 (as claimed): every status write goes idle -> busy or busy -> idle.
\* The writes are: busy at the start of submit_task, of execute_task and of
\* settle_task; idle at the end of each.
C5_StatusAlternates ==
    [][/\ \A c \in Calls :
            /\ (pc[c] = "ready" /\ pc'[c] # "ready")
                    => agent_status[Broker] = "idle"
            /\ (pc[c] = "assign_wait" /\ pc'[c] = "execute_wait")
                    => agent_status[sel[c]] = "idle"
            /\ (pc[c] = "execute_wait" /\ pc'[c] # "execute_wait")
                    => agent_status[sel[c]] = "busy"
            /\ (pc[c] # "done" /\ pc'[c] = "done")
                    => agent_status[Broker] = "busy"
       /\ \A s \in Settles :
            /\ (spc[s] = "ready" /\ spc'[s] # "ready")
                    => agent_status[Settlement] = "idle"
            /\ (spc[s] \in {"transfer_wait", "payment_wait"}
                    /\ spc'[s] \in {"done", "raised"})
                    => agent_status[Settlement] = "busy"]_vars

\* C6 (as claimed): when a submit_task call ends by raising, the Broker's
\* status is idle at that moment.
C6_IdleWhenRaised ==
    [][\A c \in Calls :
        (pc[c] # "raised" /\ pc'[c] = "raised")
            => agent_status'[Broker] = "idle"]_vars

\* C7 (as claimed): a submit_task call made when the store holds no idle
\* worker does not raise, selects and invokes no worker, publishes no
\* TASK_ASSIGN and no TASK_RESULT for its task, and returns the failure
\* outcome.
C7_NoIdleWorkerAtCall ==
    \A c \in Calls :
        hist[c].no_idle_at_call =>
            /\ pc[c] # "raised"
            /\ sel[c] = "none"
            /\ TaskMessages(c, {"TASK_ASSIGN", "TASK_RESULT"}) = {}
            /\ pc[c] = "done" => res[c].status = "no_worker"

\* C7 (amended): a submit_task call that reaches worker selection (its
\* TASK_REQUEST is recorded) when the store holds no idle worker returns
\* the failure outcome with the Broker's status idle at that moment; such
\* a call has selected and invoked no worker and no TASK_ASSIGN or
\* TASK_RESULT of its task is ever recorded.
C7_NoIdleWorkerAtSelection ==
    /\ [](\A c \in Calls :
            res[c].status = "no_worker" =>
                /\ pc[c] = "done"
                /\ sel[c] = "none"
                /\ TaskMessages(c, {"TASK_ASSIGN", "TASK_RESULT"}) = {})
    /\ [][\A c \in Calls :
            (pc[c] = "request_wait" /\ pc'[c] # "request_wait"
                    /\ IdleWorkers = {})
                => /\ res'[c].status = "no_worker"
                   /\ agent_status'[Broker] = "idle"]_vars

\* C7 witness: a call got the failure outcome although the roster has a
\* worker (busy at selection), while another call went on to its result.
C7_Witness ==
    \E c, d \in Calls :
        /\ res[c].status = "no_worker"
        /\ workers # {}
        /\ res[d].status = "completed"

\* C8: when the fulfillment backend raises, execute_task returns a failed
\* TaskResult of cost 0, the worker is idle on return, and the worker's
\* tasks_completed and earnings and the store's tasks_completed are as
\* before.
C8_BackendFailureContained ==
    [][\A c \in Calls :
        (hist[c].backend = "none" /\ hist'[c].backend = "raised")
            => /\ res'[c].status = "failed"
               /\ res'[c].cost = 0
               /\ pc'[c] \in {"result_wait", "raised"}
               /\ agent_status'[sel[c]] = "idle"
               /\ agent_tasks' = agent_tasks
               /\ agent_earnings' = agent_earnings
               /\ tasks_completed' = tasks_completed]_vars

\* C8 witness: the backend raised for one call after another call had
\* completed a task on the same worker (the counters are not zero).
C8_Witness ==
    \E c, d \in Calls :
        /\ hist[c].backend = "raised"
        /\ res[c].status = "failed"
        /\ hist[d].backend = "ok"
        /\ sel[c] = sel[d]
        /\ tasks_completed = 1

\* C9: when the awaited transfer fails, settle_task ends by raising, the
\* total, the transaction history and the message history are as before
\* (no PAYMENT recorded), the Settlement agent is idle, and the call does
\* nothing afterwards.
C9_TransferFailurePropagates ==
    /\ [][\A s \in Settles :
            (spc[s] = "transfer_wait" /\ spc'[s] # "transfer_wait"
                    /\ stx'[s] = NoTx)
                => /\ spc'[s] = "raised"
                   /\ total_hbar_settled' = total_hbar_settled
                   /\ transactions' = transactions
                   /\ messages' = messages
                   /\ agent_status'[Settlement] = "idle"]_vars
    /\ [][\A s \in Settles : spc[s] = "raised" => spc'[s] = "raised"]_vars

\* C9 witness: a settlement whose transfer failed, after another one was
\* settled (total and histories are not empty).
C9_Witness ==
    \E s, r \in Settles :
        /\ spc[s] = "raised"
        /\ stx[s] = NoTx
        /\ spc[r] = "done"
        /\ Len(transactions) = 1
        /\ Len(messages) = 1

\* round(budget * 0.8, 4) stated on its own: the multiple of 0.0001 nearest
\* to 0.8 * budget (budget in units of 0.0001, result in units of 0.00001).
RoundedShare(budget) ==
    10 * (CHOOSE k \in -10..10 :
            /\ 10 * k - 8 * budget < 5
            /\ 8 * budget - 10 * k <= 5)

\* C10 (as claimed): every completed TaskResult has cost
\* round(budget * 0.8, 4) and 0 <= cost <= budget.
C10_CostIsRoundedShare ==
    \A c \in Calls :
        res[c].status = "completed" =>
            /\ res[c].cost = RoundedShare(req[c].budget)
            /\ 0 <= res[c].cost
            /\ res[c].cost <= 10 * req[c].budget

\* C11 (as claimed): over any sequence of settle_task calls, with any
\* amounts, total_hbar_settled never decreases from one state to the next.
C11_TotalNeverDecreases ==
    [][total_hbar_settled' >= total_hbar_settled]_vars

\* C12: the messages a submit_task call records for its task come in the
\* order TASK_REQUEST (topic tasks), TASK_ASSIGN (topic tasks), TASK_RESULT
\* (topic results): each TASK_ASSIGN has the TASK_REQUEST of its task before
\* it and each TASK_RESULT the TASK_ASSIGN, each type is recorded at most
\* once per task, and a call that found a worker and returned has recorded
\* all three; this holds however the calls interleave.
C12_ProtocolOrder ==
    \A c \in Calls :
        /\ \A i \in TaskMessages(c, {"TASK_REQUEST", "TASK_ASSIGN"}) :
                messages[i].topic = "tasks"
        /\ \A i \in TaskMessages(c, {"TASK_RESULT"}) :
                messages[i].topic = "results"
        /\ \A ty \in {"TASK_REQUEST", "TASK_ASSIGN", "TASK_RESULT"} :
                Cardinality(TaskMessages(c, {ty})) <= 1
        /\ \A i \in TaskMessages(c, {"TASK_ASSIGN"}) :
                \E j \in TaskMessages(c, {"TASK_REQUEST"}) : j < i
        /\ \A i \in TaskMessages(c, {"TASK_RESULT"}) :
                \E j \in TaskMessages(c, {"TASK_ASSIGN"}) : j < i
        /\ (pc[c] = "done" /\ sel[c] # "none") =>
                /\ TaskMessages(c, {"TASK_REQUEST"}) # {}
                /\ TaskMessages(c, {"TASK_ASSIGN"}) # {}
                /\ TaskMessages(c, {"TASK_RESULT"}) # {}

\* C12 witness: two calls that found a worker have both returned, and
\* their messages interleave (the second message recorded belongs to
\* another task than the first and than the last).
C12_Witness ==
    /\ \A c \in Calls : pc[c] = "done" /\ sel[c] # "none"
    /\ Len(messages) = 3 * MaxCalls
    /\ messages[1].payload.task_id # messages[2].payload.task_id
    /\ messages[Len(messages)].payload.task_id # messages[2].payload.task_id

\* The registered agents of type worker that are idle, and those of them
\* with a skill that is a substring of the task type of call c.
IdleOfTypeWorker ==
    {a \in Registered : AgentType(a) = "worker" /\ agent_status[a] = "idle"}

SkillMatching(c) ==
    {a \in IdleOfTypeWorker :
        \E skill \in Skills(a) : IsSubstring(skill, req[c].task_type)}

\* C13: at the moment of selection the selected agent is of type worker
\* and idle; when some idle worker has a skill that is a substring of the
\* task type the selected one is such a worker; only when none matches is
\* an idle worker without a matching skill selected, and with no idle
\* worker nobody is.
C13_SelectionIdleSkillFirst ==
    [][\A c \in Calls :
        (pc[c] = "request_wait" /\ pc'[c] # "request_wait") =>
            /\ sel'[c] # "none" =>
                    /\ AgentType(sel'[c]) = "worker"
                    /\ sel'[c] \in Registered
                    /\ agent_status[sel'[c]] = "idle"
            /\ SkillMatching(c) # {} => sel'[c] \in SkillMatching(c)
            /\ (SkillMatching(c) = {} /\ IdleOfTypeWorker # {})
                    => sel'[c] \in IdleOfTypeWorker
            /\ IdleOfTypeWorker = {} => sel'[c] = "none"]_vars

\* C13 witness: one call selected w2 for a task type that also holds the
\* idle Settlement agent's skill, with w1 idle, earlier in the roster and
\* less loaded; another call selected w1, without a matching skill, for a
\* task type that matches only the Settlement agent's skill.
C13_Witness ==
    \E c, d \in Calls :
        /\ req[c].task_type = <<4, 3>>
        /\ sel[c] = "w2"
        /\ agent_status["w1"] = "idle"
        /\ agent_tasks["w1"] < agent_tasks["w2"]
        /\ req[d].task_type = <<4>>
        /\ sel[d] = "w1"

\* The candidates of call c: the skill-matching idle workers when there are
\* some, all idle workers otherwise.
Eligible(c) ==
    IF SkillMatching(c) # {} THEN SkillMatching(c) ELSE IdleOfTypeWorker

\* C14: the selected worker has the fewest lifetime tasks_completed of all
\* candidates, and two selections made on the same roster state and task
\* type return the same worker (under SelectSpec the roster never changes).
C14_LeastLoadedDeterministic ==
    /\ [][\A c \in Calls :
            (pc[c] = "request_wait" /\ pc'[c] # "request_wait"
                    /\ sel'[c] # "none")
                => \A v \in Eligible(c) :
                        agent_tasks[sel'[c]] <= agent_tasks[v]]_vars
    /\ [](\A c, d \in Calls :
            (pc[c] \in {"assign_wait", "done"}
                    /\ pc[d] \in {"assign_wait", "done"}
                    /\ req[c].task_type = req[d].task_type)
                => sel[c] = sel[d])

\* C14 witness: two calls with the same task type selected w2, the less
\* loaded of two candidates, although w1 comes first in the roster.
C14_Witness ==
    \E c, d \in Calls :
        /\ c # d
        /\ req[c].task_type = <<0>>
        /\ req[d].task_type = <<0>>
        /\ sel[c] = "w2"
        /\ sel[d] = "w2"
        /\ agent_status["w1"] = "idle"
        /\ agent_tasks["w2"] < agent_tasks["w1"]

\* The last cap entries of a history extended by one entry.
LastOf(history, entry, cap) ==
    LET all == Append(history, entry)
        from == IF Len(all) > cap THEN Len(all) - cap ELSE 0
    IN  [i \in 1..(Len(all) - from) |-> all[from + i]]

\* C15: the message history never holds more than MessageCap entries and
\* the transaction history never more than TransactionCap; each append
\* leaves the entries appended most recently, at most the cap of them, in
\* append order, so that after n > cap appends the history is exactly the
\* entries n - cap + 1 .. n.
C15_BoundedHistory ==
    /\ [](/\ Len(messages) <= MessageCap
          /\ Len(transactions) <= TransactionCap
          /\ \A i \in 1..Len(messages) :
                messages[i] = StoreMessage(LastMessage - Len(messages) + i)
          /\ \A i \in 1..Len(transactions) :
                transactions[i] =
                    StoreTransaction(LastTransaction - Len(transactions) + i)
          /\ LastMessage > MessageCap => Len(messages) = MessageCap
          /\ LastTransaction > TransactionCap
                => Len(transactions) = TransactionCap)
    /\ [][/\ messages' # messages =>
                messages' = LastOf(messages, StoreMessage(LastMessage + 1),
                                   MessageCap)
          /\ transactions' # transactions =>
                transactions' =
                    LastOf(transactions, StoreTransaction(LastTransaction + 1),
                           TransactionCap)]_vars

\* C15 witness: more entries than the cap were appended to both histories
\* (MaxAppends more), and the oldest entries are gone.
C15_Witness ==
    /\ LastMessage = MessageCap + MaxAppends
    /\ LastTransaction = TransactionCap + MaxAppends
    /\ messages[1].payload.task_id = MaxAppends + 1
    /\ transactions[1].task_id = MaxAppends + 1

\* C16 (as claimed): a second ensure_topics call on the same bus, with the
\* same environment and mode, leaves the same name-to-id mapping as the
\* first, in mock mode and in live mode.
C16_EnsureTopicsIdempotent ==
    \A i, j \in 1..Len(ensured) : ensured[i] = ensured[j]

\* Messages of the history recorded on topic t.
TopicMessages(t) == {i \in 1..Len(messages) : messages[i].topic = t}

\* C17: a publish on a topic name that has no id fails with the
\* unknown-topic error (the call that made it ends by raising), and leaves
\* the counter of that topic and the message history as they were: a name
\* without id has counter 0 and no message recorded on it.  The publishes
\* are those of TASK_REQUEST (at the call), of TASK_RESULT (after the
\* assignment to a plain roster record, or after the execution) and of
\* PAYMENT (after the transfer).
C17_UnknownTopicFails ==
    /\ [](\A t \in TopicNames :
            topics[t] = 0 =>
                /\ message_seq[t] = 0
                /\ emitted[t] = <<>>
                /\ TopicMessages(t) = {})
    /\ [][/\ \A c \in Calls :
                /\ (pc[c] = "ready" /\ pc'[c] # "ready"
                            /\ topics["tasks"] = 0)
                        => /\ pc'[c] = "raised"
                           /\ message_seq' = message_seq
                           /\ messages' = messages
                /\ (/\ \/ pc[c] = "assign_wait" /\ ~live_workers
                       \/ pc[c] = "execute_wait"
                    /\ pc'[c] # pc[c]
                    /\ topics["results"] = 0)
                        => /\ pc'[c] = "raised"
                           /\ message_seq'["results"] = message_seq["results"]
                           /\ pc[c] = "execute_wait" => messages' = messages
          /\ \A s \in Settles :
                (spc[s] \in {"ready", "transfer_wait"}
                        /\ spc'[s] \notin {"ready", "transfer_wait"}
                        /\ topics["payments"] = 0)
                    => /\ spc'[s] = "raised"
                       /\ message_seq' = message_seq
                       /\ messages' = messages]_vars

\* C17 witness: a call raised on the unknown topic "tasks"; the topics
\* were ensured afterwards and another call ran to its result: the history
\* and the counters hold that call's messages only.
C17_Witness ==
    \E c, d \in Calls :
        /\ pc[c] = "raised"
        /\ TaskMessages(c, {"TASK_REQUEST"}) = {}
        /\ pc[d] = "done"
        /\ res[d].status = "completed"
        /\ Len(messages) = 3
        /\ message_seq["tasks"] = 2
        /\ message_seq["results"] = 1

\* A TASK_RESULT with status completed is recorded for the task of call c.
CompletedResult(c) ==
    \E i \in TaskMessages(c, {"TASK_RESULT"}) :
        messages[i].payload.status = "completed"

\* The task of call c is settled: a PAYMENT message and a transaction of
\* the task's cost are recorded for it.
Settled(c) ==
    /\ TaskMessages(c, {"PAYMENT"}) # {}
    /\ \E i \in 1..Len(transactions) :
        /\ transactions[i].task_id = c
        /\ transactions[i].amount = res[c].cost

\* C18 (as claimed): every task whose TASK_RESULT with status completed
\* was published is eventually settled (a PAYMENT message for the task and
\* the total raised by its cost).
C18_CompletedTaskSettled ==
    \A c \in Calls : CompletedResult(c) ~> Settled(c)

\* The calls whose protocol has started and not ended.
InProgress ==
    {c \in Calls : pc[c] \in {"request_wait", "assign_wait", "execute_wait",
                              "result_wait"}}

\* C19 (as claimed): the protocol steps of two submit_task calls on one
\* Broker never interleave: at most one call is between its first step
\* and its return.
C19_DispatchSerialized == Cardinality(InProgress) <= 1

RECURSIVE SumAmounts(_)
SumAmounts(txns) ==
    IF txns = <<>> THEN 0
    ELSE txns[1].amount + SumAmounts(SubSeq(txns, 2, Len(txns)))

RECURSIVE SumTasks(_, _)
SumTasks(records, ids) ==
    IF ids = {} THEN 0
    ELSE LET a == CHOOSE x \in ids : TRUE
         IN  records[a].tasks_completed + SumTasks(records, ids \ {a})

\* C20: whenever a snapshot is taken, between any two steps of the agents,
\* its total_hbar_settled is the sum of the amounts of the transactions
\* recorded (fewer than ten, all of them in the snapshot) and its global
\* tasks_completed is the sum of the agents' tasks_completed: no amount
\* without its record, no record without its amount, no worker increment
\* without the global one and conversely.
C20_SnapshotConsistent ==
    /\ Len(transactions) <= 10
    /\ snapshot.total_hbar_settled = Round4(SumAmounts(snapshot.transactions))
    /\ snapshot.tasks_completed
            = SumTasks(snapshot.agents, DOMAIN snapshot.agents)

\* C20 witness: a snapshot taken while a submit_task call is still in
\* progress, after its worker completed the task and after a settlement
\* of a non-zero amount was recorded.
C20_Witness ==
    /\ pc[1] = "result_wait"
    /\ snapshot.tasks_completed = 1
    /\ Len(snapshot.transactions) = 1
    /\ snapshot.total_hbar_settled # 0

\* The messages of type mtype sent by the Registry whose publish fell back
\* to the local sequence after a failure of the SDK submission (live mode).
FailedPublishes(mtype) ==
    {i \in 1..Len(messages) :
        /\ messages[i].sender = Registry
        /\ messages[i].message_type = mtype
        /\ ~mock_mode
        /\ messages[i].tx_id.kind = "local"}

\* The Registry's loop has been entered: its announcement is recorded.
Announced ==
    \E i \in 1..Len(messages) :
        messages[i].sender = Registry /\ messages[i].message_type = "REGISTER"

\* C21: a failing heartbeat publish does not end the Registry's loop: from
\* the announcement on, while running is set, run() is waiting for the
\* next interval or publishing a heartbeat, never ended by an exception or
\* returned, whatever publishes failed before.
C21_HeartbeatFailureSurvived ==
    (running[Registry] /\ Announced)
        => registry_pc \in {"interval", "heartbeat_wait"}

\* A heartbeat publish failed and the next heartbeat is being published.
C21_Witness ==
    /\ running[Registry]
    /\ FailedPublishes("HEARTBEAT") # {}
    /\ registry_pc = "heartbeat_wait"

\* C22 (as claimed): after the stop signal of an agent, that agent starts
\* no new unit of work: the Broker dequeues no task, the Settlement agent
\* dequeues no settlement, the Registry starts no heartbeat publish.
C22_NoWorkAfterStop ==
    [][/\ ~running[Broker] => Len(task_queue') >= Len(task_queue)
       /\ ~running[Settlement] =>
                Len(settlement_queue') >= Len(settlement_queue)
       /\ ~running[Registry] =>
                (registry_pc' = "heartbeat_wait"
                    => registry_pc = "heartbeat_wait")]_vars

\* The ids the mock scheme can produce (hedera_client.py:103, :115):
\* hash(memo) % 9000000 + 1000000.
MockSchemeIds == 1000000..9999999

\* C23: in live mode, a topic creation that fails (no topic was created on
\* the network) leaves an id of the mock scheme under the name and
\* ensure_topics goes on; a publish whose tx id is local (the SDK
\* submission failed) is recorded with the topic's next local sequence
\* number and advances that topic's counter by exactly one and no other,
\* and a publish with an SDK tx id advances no counter.
C23_LiveFallback ==
    [][~mock_mode =>
        /\ (ens.pos # 0 /\ ens' # ens /\ net_created' = net_created)
                => /\ topics'[TopicOrder[ens.pos]] \in MockSchemeIds
                   /\ ens'.pos # ens.pos
        /\ Len(messages') = Len(messages) + 1
                => LET m == messages'[Len(messages')]
                   IN  IF m.tx_id.kind = "local"
                       THEN /\ m.tx_id.seq = message_seq[m.topic] + 1
                            /\ message_seq' =
                                [message_seq EXCEPT ![m.topic] = @ + 1]
                       ELSE message_seq' = message_seq]_vars

\* Live mode: the creation of "registry" failed and two publishes on it
\* fell back to the local sequence.
C23_Witness ==
    /\ ~mock_mode
    /\ topics["registry"] = MockTopicId("registry")
    /\ FailedPublishes("REGISTER") # {}
    /\ message_seq["registry"] = 2

\* C24 (as claimed): the two queues have a capacity.  Every enqueue made
\* here is made without waiting for room, MaxSettles (MaxCalls) of them at
\* most: a capacity shows as a queue that never holds all of them.
C24_QueuesBounded ==
    /\ Len(settlement_queue) < MaxSettles
    /\ Len(task_queue) < MaxCalls

\* C25 (as claimed): every constructed agent has its own record in the
\* store: the roster holds, under each constructed agent's id, that agent
\* (so the ids differ and no registration replaced another agent's record).
C25_OneRecordPerAgent == \A a \in Constructed : agents[agent_id[a]] = a

\* The settle_task calls that return their tx id in this step.
Returning(s) == spc[s] # "done" /\ spc'[s] = "done"

\* C26: a PAYMENT message is recorded only in the step in which a
\* settle_task call returns, and a call returns only so: its transfer had
\* returned a tx id before, the PAYMENT message on "payments" carries that
\* id with the task, the worker and the amount, total_hbar_settled grows
\* by exactly the amount, and exactly one transaction record with the
\* same task id, worker id, amount and tx id is appended.
C26_SettleOrder ==
    [][/\ \A s \in Settles : Returning(s) =>
            /\ spc[s] = "payment_wait"
            /\ stx[s] # NoTx
            /\ stx'[s] = stx[s]
            /\ Len(messages') = Len(messages) + 1
            /\ SubSeq(messages', 1, Len(messages)) = messages
            /\ LET m == messages'[Len(messages')]
               IN  /\ m.topic = "payments"
                   /\ m.message_type = "PAYMENT"
                   /\ m.sender = Settlement
                   /\ m.payload.task_id = sreq[s].task
                   /\ m.payload.worker_id = sreq[s].worker
                   /\ m.payload.amount = sreq[s].amount
                   /\ m.payload.tx_id = stx[s]
            /\ total_hbar_settled' = total_hbar_settled + sreq[s].amount
            /\ Len(transactions') = Len(transactions) + 1
            /\ SubSeq(transactions', 1, Len(transactions)) = transactions
            /\ LET t == transactions'[Len(transactions')]
               IN  /\ t.task_id = sreq[s].task
                   /\ t.worker_id = sreq[s].worker
                   /\ t.amount = sreq[s].amount
                   /\ t.tx_id = stx[s]
       /\ (\A s \in Settles : ~Returning(s)) =>
            /\ total_hbar_settled' = total_hbar_settled
            /\ transactions' = transactions
            /\ \A i \in (Len(messages) + 1)..Len(messages') :
                    messages'[i].message_type # "PAYMENT"]_vars

\* A settle_task call has returned after its transfer, with its PAYMENT
\* message and its transaction recorded.
C26_Witness ==
    \E s \in Settles :
        /\ spc[s] = "done"
        /\ stx[s] = TransferTxId
        /\ \E i \in 1..Len(messages) :
                /\ messages[i].message_type = "PAYMENT"
                /\ messages[i].payload.tx_id = stx[s]
        /\ \E i \in 1..Len(transactions) : transactions[i].tx_id = stx[s]

\* The calls whose execute_task succeeded, on worker w.
Succeeded(w) == {c \in Calls : sel[c] = w /\ hist[c].backend = "ok"}

RECURSIVE SumCosts(_)
SumCosts(calls) ==
    IF calls = {} THEN 0
    ELSE LET c == CHOOSE x \in calls : TRUE
         IN  res[c].cost + SumCosts(calls \ {c})

\* C27: at any time, each worker's tasks_completed is the number of its
\* execute_task invocations that succeeded so far, its earnings are the sum
\* of the costs they returned, and the store's tasks_completed is the
\* number of all of them: every success added exactly 1, its cost and 1,
\* and none was lost, overlapping invocations included.
C27_NoLostIncrement ==
    /\ \A w \in AllWorkers :
        /\ agent_tasks[w] = Cardinality(Succeeded(w))
        /\ agent_earnings[w] = SumCosts(Succeeded(w))
    /\ tasks_completed =
            Cardinality(Succeeded("w1")) + Cardinality(Succeeded("w2"))

\* One execute_task on w1 succeeded while another was in progress on the
\* same worker (its finally left w1 idle under the running invocation).
C27_Witness ==
    \E c, d \in Calls :
        /\ c # d
        /\ sel[c] = "w1" /\ hist[c].backend = "ok"
        /\ sel[d] = "w1" /\ pc[d] = "execute_wait"
        /\ agent_status["w1"] = "idle"
        /\ agent_tasks["w1"] = 1

\* C28 (as claimed): the settle_task calls made by the loop take the
\* queued settlements in the order they were enqueued, one call each (the
\* n-th call is for the n-th settlement), and while running is set every
\* enqueued settlement is eventually handed to settle_task, whatever became
\* of the settlements before it.
C28_QueuedSettlementsProcessed ==
    /\ [](\A s \in Settles : spc[s] # "ready" => sreq[s].task = s)
    /\ \A n \in Settles :
            (queued >= n) ~> (spc[n] # "ready" \/ ~running[Settlement])

\* The publishes that succeeded so far: in mock mode each advances the
\* counter of its topic by one (hedera_client.py:138-139).
Published ==
    message_seq["registry"] + message_seq["tasks"]
        + message_seq["results"] + message_seq["payments"]

\* The publishes in flight: submit_message was called and has not returned.
InFlight ==
    Cardinality({c \in Calls : pc[c] \in {"request_wait", "assign_wait",
                                          "result_wait"}})
    + Cardinality({s \in Settles : spc[s] = "payment_wait"})
    + (IF registry_pc \in {"announce_wait", "heartbeat_wait"} THEN 1 ELSE 0)

\* C29: with several agents publishing at the same time, after N appends
\* in total (the Prefill entries and the successful publishes) the history
\* holds min(N, 500) messages: the newest of the older entries, in their
\* order, then every published message (each pair of topic and local
\* sequence number) exactly once.
C29_NoLostAppend ==
    LET n == Prefill + Published
        len == Len(messages)
        old == len - Published
    IN  /\ len = (IF n < MessageCap THEN n ELSE MessageCap)
        /\ old >= 1
        /\ messages[1] = StoreMessage(1 + n - len)
        /\ messages[old] = StoreMessage(Prefill)
        /\ \A t \in TopicNames : \A k \in 1..message_seq[t] :
                Cardinality({i \in (old + 1)..len :
                    /\ messages[i].topic = t
                    /\ messages[i].tx_id = [kind |-> "local", seq |-> k]})
                    = 1

\* Three publishes were in flight at the same time and the history, at
\* its cap, has evicted entries to take the published messages.
C29_Witness ==
    /\ Len(messages) = MessageCap
    /\ messages[1] # StoreMessage(1)
    /\ Published > MaxAppends \div 2
    /\ \E i, j, k \in (Len(messages) - Published + 1)..Len(messages) :
        /\ i < j /\ j < k
        /\ messages[i].sender = Settlement
        /\ messages[j].sender = Broker /\ messages[j].message_type = "TASK_REQUEST"
        /\ messages[k].sender = Registry /\ messages[k].message_type = "REGISTER"
    /\ InFlight = 2

\* The execute_task invocation of call c, on worker w, begins or ends in
\* this step.
ExecuteTaskStep(c, w) ==
    /\ sel'[c] = w
    /\ \/ pc[c] = "assign_wait" /\ pc'[c] = "execute_wait"
       \/ pc[c] = "execute_wait" /\ pc'[c] # "execute_wait"

\* Call c takes a step of the Broker's own code in submit_task (worker
\* selection included).
SubmitTaskStep(c) == pc'[c] # pc[c] /\ pc[c] # "execute_wait"

\* C30: each status is written by its owner's operations only: a Worker's
\* status changes only in a step in which an execute_task invocation on
\* that worker begins or ends; the Settlement agent's only in a step of a
\* settle_task call, which changes no other status; the Broker's only in a
\* step of submit_task's own code; the Registry's never.
C30_StatusWrittenByOwner ==
    [][/\ \A w \in AllWorkers :
            agent_status'[w] # agent_status[w]
                => \E c \in Calls : ExecuteTaskStep(c, w)
       /\ agent_status'[Settlement] # agent_status[Settlement]
                => \E s \in Settles : spc'[s] # spc[s]
       /\ (\E s \in Settles : spc'[s] # spc[s])
                => \A a \in Agents \ {Settlement} :
                        agent_status'[a] = agent_status[a]
       /\ agent_status'[Broker] # agent_status[Broker]
                => \E c \in Calls : SubmitTaskStep(c)
       /\ agent_status'[Registry] = agent_status[Registry]]_vars

\* A settle_task call is in progress (Settlement busy) while a submit_task
\* call is in progress (Broker busy) whose worker has finished execute_task
\* and is idle again.
C30_Witness ==
    /\ agent_status[Settlement] = "busy"
    /\ agent_status[Broker] = "busy"
    /\ \E c \in Calls :
        /\ pc[c] = "result_wait"
        /\ hist[c].backend = "ok"
        /\ agent_status[sel[c]] = "idle"

\* The smaller of two numbers.
Min(a, b) == IF a < b THEN a ELSE b

\* C31: a snapshot() call returns a record for every agent of the roster
\* with that agent's status, the min(20, n) most recent messages and the
\* min(10, m) most recent transactions in append order (n and m being the
\* lengths of the histories), and changes nothing in the store.
C31_SnapshotView ==
    [][Len(snapshots') > Len(snapshots) =>
        LET v == snapshots'[Len(snapshots')]
            n == Len(messages)
            m == Len(transactions)
        IN  /\ DOMAIN v.agents = Registered
            /\ \A a \in Registered : v.agents[a].status = agent_status[a]
            /\ Len(v.messages) = Min(SnapshotMessages, n)
            /\ \A i \in 1..Len(v.messages) :
                    v.messages[i] = messages[n - Len(v.messages) + i]
            /\ Len(v.transactions) = Min(SnapshotTransactions, m)
            /\ \A i \in 1..Len(v.transactions) :
                    v.transactions[i]
                        = transactions[m - Len(v.transactions) + i]
            /\ UNCHANGED <<storeVars, agentVars, rosterVars, workers>>]_vars

\* A snapshot was taken of a store holding more messages and more
\* transactions than a snapshot shows, and two workers.
C31_Witness ==
    /\ Len(snapshots) = 1
    /\ Len(messages) > SnapshotMessages
    /\ Len(transactions) > SnapshotTransactions
    /\ Len(snapshots[1].messages) = SnapshotMessages
    /\ workers = {"w1", "w2"}

\* C32: between any two steps, total_hbar_settled is the sum of the
\* amounts of all records ever handed to add_transaction, evicted ones
\* included, and as many additions were made to the total as records were
\* appended.
C32_TotalIsSumOfAppended ==
    /\ total_hbar_settled = appended.sum
    /\ appended.additions = appended.appends

\* Settlements went on after the history reached its cap: records were
\* evicted, and the total exceeds what the retained records sum to.
C32_Witness ==
    /\ appended.appends > TransactionCap
    /\ Len(transactions) = TransactionCap
    /\ transactions[1] # SettledTransaction(1)
    /\ \E s \in Settles : spc[s] = "done" /\ sreq[s].amount > 0
    /\ total_hbar_settled > 40 * TransactionCap

\* The worker records of the roster.
RosterWorkers == {a \in Registered : AgentType(a) = "worker"}

RECURSIVE SumCompleted(_)
SumCompleted(ws) ==
    IF ws = {} THEN 0
    ELSE LET w == CHOOSE x \in ws : TRUE
         IN  agent_tasks[w] + SumCompleted(ws \ {w})

Submitting ==
    {<<"call", c, pc[c]>> : c \in {c \in Calls : pc[c] \in {"request_wait",
                                        "assign_wait", "result_wait"}}}
    \cup {<<"settle", s, spc[s]>> :
                s \in {s \in Settles : spc[s] = "payment_wait"}}
    \cup (IF registry_pc \in {"announce_wait", "heartbeat_wait"}
          THEN {<<"registry", 0, registry_pc>>} ELSE {})

\* A publish, or the operation around it, raised in this step.
RaisedInStep ==
    \/ registry_pc # "raised" /\ registry_pc' = "raised"
    \/ \E c \in Calls : pc[c] # "raised" /\ pc'[c] = "raised"
    \/ \E s \in Settles : spc[s] # "raised" /\ spc'[s] = "raised"

\* C34: a message is recorded only when the submission for it returned a
\* transaction id: a step that changes the history ends one submission
\* that was in flight, every message of the history has a tx id that is
\* not null, and a step in which a publish raises leaves the history as
\* it was.
C34_RecordedAfterSubmission ==
    [][/\ messages' # messages
            => /\ Cardinality(Submitting \ Submitting') = 1
               /\ messages'[Len(messages')].tx_id # NoTx
       /\ \A i \in 1..Len(messages') : messages'[i].tx_id # NoTx
       /\ RaisedInStep => messages' = messages]_vars

\* One settlement's PAYMENT publish raised on the topic without id, after
\* its transfer, and recorded nothing; the other one's PAYMENT is the
\* only message of the history.
C34_Witness ==
    \E s \in Settles :
        /\ spc[s] = "raised"
        /\ stx[s] # NoTx
        /\ Len(messages) = 1
        /\ messages[1].message_type = "PAYMENT"
        /\ messages[1].payload.task_id # sreq[s].task
        /\ messages[1].tx_id # NoTx

\* The PAYMENT messages of the history that name task t.
PaymentsFor(history, t) ==
    {i \in 1..Len(history) :
        /\ history[i].message_type = "PAYMENT"
        /\ history[i].payload.task_id = t}

\* C35: when the transfer of a settle_task call succeeded and the PAYMENT
\* publish that follows fails (its topic has no id), the call ends by
\* raising, the total, the transaction history and the message history
\* are as before, and the Settlement agent is idle; a Transaction record
\* is appended only in the step that recorded the PAYMENT message of its
\* task, just before it: the recording of that message precedes every
\* record of the transaction history.
C35_PublishFailureAfterTransfer ==
    /\ [][\A s \in Settles :
            (stx[s] = NoTx /\ stx'[s] # NoTx /\ ~TopicReady("payments"))
                => /\ spc'[s] = "raised"
                   /\ total_hbar_settled' = total_hbar_settled
                   /\ transactions' = transactions
                   /\ messages' = messages
                   /\ agent_status'[Settlement] = "idle"]_vars
    /\ [][transactions' # transactions
            => /\ Len(messages') = Len(messages) + 1
               /\ Len(transactions') = Len(transactions) + 1
               /\ Len(messages') \in PaymentsFor(messages',
                        transactions'[Len(transactions')].task_id)]_vars

\* A settlement whose transfer succeeded and whose PAYMENT publish raised:
\* the only Transaction record and the only PAYMENT message are those of
\* the other settlement, and the total is its amount.
C35_Witness ==
    \E s, r \in Settles :
        /\ spc[s] = "raised"
        /\ stx[s] # NoTx
        /\ spc[r] = "done"
        /\ Len(transactions) = 1
        /\ transactions[1].task_id = sreq[r].task
        /\ PaymentsFor(messages, sreq[s].task) = {}
        /\ PaymentsFor(messages, sreq[r].task) = {1}
        /\ total_hbar_settled = sreq[r].amount
        /\ sreq[r].amount > 0
        /\ agent_status[Settlement] = "idle"

\* The TASK_RESULT messages with status completed published by the Broker.
CompletedReports ==
    {i \in 1..Len(messages) :
        /\ messages[i].sender = Broker
        /\ messages[i].message_type = "TASK_RESULT"
        /\ messages[i].payload.status = "completed"}

\* C36 (as claimed): when no submit_task call is in progress, the number
\* of TASK_RESULT messages with status completed that the Broker published
\* is the store's tasks_completed, on either dispatch path.
C36_ReportedCompletedIsCounted ==
    (\A c \in Calls : pc[c] \in {"ready", "done", "raised"})
        => Cardinality(CompletedReports) = tasks_completed

====
